---- MODULE Spec2Model ----
(***************************************************************************)
(* A model of the gbas assembler: ROM production (Program::into_rom), the  *)
(* linker's interval refinement (VarTable::resolve / refine_all) and the   *)
(* statement-level assembly pipeline (assemble).                           *)
(***************************************************************************)
EXTENDS Integers, Sequences, FiniteSets, TLC

VARIABLES
    sections,   \* Program.sections: the binary sections handed to into_rom
    rom,        \* Rom.data, run-length encoded
    romDone,    \* into_rom has returned
    object,     \* Object.content: sections and symbols under construction
    state,      \* ProgramBuilder.state
    vars,       \* Object.vars: the VarTable
    phase,      \* the stage of the pipeline; "aborted" once assemble has panicked
    ops,        \* number of builder operations performed
    passes,     \* number of refine_all calls made so far
    panicked,   \* an assert!, unwrap, panic! or unimplemented! was hit
    refLog,     \* history: the refine calls made by the last linker action
    sizeLog,    \* history: the LdInlineAddr sizes computed by the last linker action
    rootRead,   \* outcome of opening the root file in the codebase
    src,        \* the statements of the root file, one per line
    pc,         \* number of statements analysed so far
    diags,      \* the diagnostics received by the sink
    emitted,    \* history: per analysed statement, what it gave the builder
    result,     \* what assemble returned
    tokenStream,  \* the tokens handed to parse_src, Eof last
    parsed,       \* the parser's state after parse_src, or NotParsed
    macroTable,   \* Session.macros: the macro definitions
    callArgs,     \* the argument token sequences of the macro calls
    expansions,   \* history: the token stream each expand_macro call pushed
    nameTable,    \* Session.names
    lineState,    \* the semantic state of the line being analysed
    allocated,    \* the number of symbol ids the builder has allocated
    sessionLog,   \* history: what the semantic actions asked of the session since the line began
    fileSystem,   \* what read_file gives for each path: the lines of the file, or an error
    textCache,    \* TextCache.bufs: the source buffers of the codebase
    fsReads,      \* history: the paths read_file was called with
    inclusions,   \* the files being analysed, innermost last, each with its position
    analysisLog,  \* history: items, diagnostics, and the files entered and left, in order
    compactDiag,  \* the CompactDiag handed to expand
    expandedDiag  \* what expand returned for it, or NotExpanded

romVars == <<sections, rom, romDone>>
linkVars == <<object, state, vars, phase, ops, passes, panicked, refLog, sizeLog>>
sourceVars == <<fileSystem, textCache, fsReads, inclusions, analysisLog>>
diagVars == <<compactDiag, expandedDiag>>
asmVars == <<rootRead, src, pc, diags, emitted, result, sourceVars, diagVars>>
frontVars == <<tokenStream, parsed, macroTable, callArgs, expansions, nameTable, lineState,
               allocated, sessionLog>>
allVars == <<romVars, linkVars, asmVars, frontVars>>

SeqsUpTo(S, n) == UNION {[1..k -> S] : k \in 0..n}

(***************************************************************************)
(* ROM production: src/src/link/mod.rs                                     *)
(*                                                                         *)
(* A Vec<u8> is represented run-length encoded: a sequence of runs         *)
(* [n |-> count, b |-> byte], denoting b repeated n times, run after run.  *)
(* Rust index j (from 0) is the j-th byte of that expansion.               *)
(***************************************************************************)

\* Bound: the number of binary sections of a linked program.
MaxSections == 3

MIN_ROM_LEN == 32768

\* Addresses and contents the binary sections are drawn from.
SectionAddrs == {336, 337, 32767, 32769}
SectionDatas == {<<>>, <<66>>, <<18, 52>>}

BinarySection == [addr : SectionAddrs, data : SectionDatas]

RECURSIVE VecLen(_)
VecLen(v) == IF v = <<>> THEN 0 ELSE Head(v).n + VecLen(Tail(v))

RECURSIVE VecGet(_, _)
VecGet(v, j) == IF j < Head(v).n THEN Head(v).b ELSE VecGet(Tail(v), j - Head(v).n)

Run(n, b) == IF n > 0 THEN <<[n |-> n, b |-> b]>> ELSE <<>>

\* v[j] = x
RECURSIVE VecSet(_, _, _)
VecSet(v, j, x) ==
    IF j < Head(v).n
    THEN Run(j, Head(v).b) \o Run(1, x) \o Run(Head(v).n - j - 1, Head(v).b) \o Tail(v)
    ELSE <<Head(v)>> \o VecSet(Tail(v), j - Head(v).n, x)

\* Vec::resize(new_len, value), called with new_len > len only
Resize(data, new_len, value) == data \o Run(new_len - VecLen(data), value)

\* data[addr..addr + len].copy_from_slice(slice)
RECURSIVE CopyFromSlice(_, _, _)
CopyFromSlice(data, addr, slice) ==
    IF slice = <<>> THEN data
    ELSE CopyFromSlice(VecSet(data, addr, Head(slice)), addr + 1, Tail(slice))

\* PlaceSection with the slice copied one byte too far
PlaceSection_OffByOne(data, section, default) ==
    IF section.data # <<>>
    THEN LET end == section.addr + Len(section.data) + 1
             grown == IF VecLen(data) < end THEN Resize(data, end, default) ELSE data
         IN CopyFromSlice(grown, section.addr + 1, section.data)
    ELSE data

\* the body of the `for section in self.sections` loop
PlaceSection(data, section, default) ==
    IF section.data # <<>>
    THEN LET end == section.addr + Len(section.data)
             grown == IF VecLen(data) < end THEN Resize(data, end, default) ELSE data
         IN CopyFromSlice(grown, section.addr, section.data)
    ELSE data

RECURSIVE PlaceSections(_, _, _)
PlaceSections(data, secs, default) ==
    IF secs = <<>> THEN data
    ELSE PlaceSections(PlaceSection(data, Head(secs), default), Tail(secs), default)

\* into_rom without the final resize to MIN_ROM_LEN
into_rom_NoFloor(secs) == PlaceSections(<<>>, secs, 255)

\* into_rom padding with 0x00, as the superseded src/src/backend.rs did
into_rom_ZeroFill(secs) ==
    LET default == 0
        data == PlaceSections(<<>>, secs, default)
    IN IF VecLen(data) < MIN_ROM_LEN THEN Resize(data, MIN_ROM_LEN, default) ELSE data

into_rom(secs) ==
    LET default == 255
        data == PlaceSections(<<>>, secs, default)
    IN IF VecLen(data) < MIN_ROM_LEN THEN Resize(data, MIN_ROM_LEN, default) ELSE data

(***************************************************************************)
(* Interval values: src/src/backend/object/resolve.rs                      *)
(***************************************************************************)

Unknown == [k |-> "Unknown", min |-> 0, max |-> 0]
Range(min, max) == [k |-> "Range", min |-> min, max |-> max]
Exact(n) == Range(n, n)

\* The outcome of an evaluation that hit unimplemented!(): no value.
Diverged == [k |-> "Diverged", min |-> 0, max |-> 0]

NumAdd(lhs, rhs) ==
    IF lhs.k = "Range" /\ rhs.k = "Range"
    THEN Range(lhs.min + rhs.min, lhs.max + rhs.max)
    ELSE Unknown

NumSub(lhs, rhs) ==
    IF lhs.k = "Range" /\ rhs.k = "Range"
    THEN Range(lhs.min - rhs.max, lhs.max - rhs.min)
    ELSE Unknown

(***************************************************************************)
(* Expressions and their evaluation: src/src/program/link/eval.rs          *)
(***************************************************************************)

Literal(n) == [k |-> "Literal", n |-> n]
Name(id) == [k |-> "Name", n |-> id]
LocationCounter == [k |-> "LocationCounter"]
Binary(op, lhs, rhs) == [k |-> "Binary", op |-> op, lhs |-> lhs, rhs |-> rhs]
NoExpr == [k |-> "None"]

\* The expressions of this model use Minus, Plus, Division and BitwiseOr; the
\* last two reach the unimplemented!() arm.
apply(op, lhs, rhs) ==
    CASE op = "Minus" -> NumSub(lhs, rhs)
      [] op = "Plus" -> NumAdd(lhs, rhs)
      [] op \in {"Division", "BitwiseOr"} -> Diverged

\* Atom::eval for a name: an undefined name is Unknown
EvalName(id, content, table) ==
    LET def == content.symbols[id]
    IN CASE def.k = "Reloc" -> table[def.id]
         [] def.k = "Section" -> table[content.sections[def.id].addr]
         [] OTHER -> Unknown

RECURSIVE eval(_, _, _, _)
eval(expr, content, table, location) ==
    CASE expr.k = "Literal" -> Exact(expr.n)
      [] expr.k = "LocationCounter" -> location
      [] expr.k = "Name" -> EvalName(expr.n, content, table)
      [] expr.k = "Binary" ->
            LET lhs == eval(expr.lhs, content, table, location)
                rhs == eval(expr.rhs, content, table, location)
            IN IF lhs.k = "Diverged" \/ rhs.k = "Diverged"
               THEN Diverged
               ELSE apply(expr.op, lhs, rhs)

(***************************************************************************)
(* Fragments and their sizes: src/src/link/mod.rs                          *)
(***************************************************************************)

Byte == [k |-> "Byte"]
Immediate(expr, width) == [k |-> "Immediate", expr |-> expr, width |-> width]
LdInlineAddr(expr) == [k |-> "LdInlineAddr", expr |-> expr]
Reloc(id) == [k |-> "Reloc", id |-> id]
Reserved(expr) == [k |-> "Reserved", expr |-> expr]

WidthLen(width) == IF width = "Byte" THEN 1 ELSE 2

\* LdSize testing the upper end of the range against 0xFF00 first
LdSize_MaxTest(value) ==
    IF value.k = "Diverged" THEN Diverged
    ELSE IF value.k = "Range" /\ value.max >= 65280 THEN Exact(2)
    ELSE IF value.k = "Range" /\ value.max < 65280 THEN Exact(3)
    ELSE Range(2, 3)

\* LdSize with the high page starting one address too late
LdSize_Threshold(value) ==
    IF value.k = "Diverged" THEN Diverged
    ELSE IF value.k = "Range" /\ value.min > 65280 THEN Exact(2)
    ELSE IF value.k = "Range" /\ value.max < 65280 THEN Exact(3)
    ELSE Range(2, 3)

LdSize(value) ==
    IF value.k = "Diverged" THEN Diverged
    ELSE IF value.k = "Range" /\ value.min >= 65280 THEN Exact(2)
    ELSE IF value.k = "Range" /\ value.max < 65280 THEN Exact(3)
    ELSE Range(2, 3)

size(item, content, table, location) ==
    CASE item.k = "Byte" -> Exact(1)
      [] item.k = "Immediate" -> Exact(WidthLen(item.width))
      [] item.k = "LdInlineAddr" -> LdSize(eval(item.expr, content, table, location))
      [] item.k = "Reloc" -> Exact(0)
      [] item.k = "Reserved" -> eval(item.expr, content, table, location)

(***************************************************************************)
(* Refinement of one variable: src/src/backend/object/context.rs           *)
(***************************************************************************)

\* refine without its assertions: whatever comes in is stored
refine_Unchecked(old, value) ==
    [stored |-> value, was_refined |-> value # old, panic |-> FALSE]

\* SymbolTable::refine on the stored value `old`: what is stored afterwards,
\* whether the call reports a refinement, and whether an assertion failed.
refine(old, value) ==
    CASE old.k = "Unknown" ->
            [stored |-> value, was_refined |-> value # Unknown, panic |-> FALSE]
      [] old.k = "Range" /\ value.k = "Range" ->
            IF value.min >= old.min /\ value.max <= old.max
            THEN [stored |-> value,
                  was_refined |-> value.min > old.min \/ value.max < old.max,
                  panic |-> FALSE]
            ELSE [stored |-> old, was_refined |-> FALSE, panic |-> TRUE]
      [] OTHER -> [stored |-> old, was_refined |-> FALSE, panic |-> TRUE]

(***************************************************************************)
(* One linker pass: src/src/link/mod.rs, VarTable::refine_all              *)
(*                                                                         *)
(* The pass threads a context [table, location, panic, refs, sizes]: the   *)
(* variable table, the location counter, whether the pass has panicked,    *)
(* and the history of the refine calls and LdInlineAddr sizes of the pass. *)
(***************************************************************************)

LinkageContext(table) ==
    [table |-> table, location |-> Unknown, panic |-> FALSE, refs |-> <<>>, sizes |-> <<>>]

\* context.vars[id].refine(value)
RefineVar(ctx, id, value) ==
    IF ctx.panic THEN ctx
    ELSE IF value.k = "Diverged" THEN [ctx EXCEPT !.panic = TRUE]
    ELSE LET r == refine(ctx.table[id], value)
         IN [ctx EXCEPT !.table[id] = r.stored,
                        !.panic = r.panic,
                        !.refs = Append(@, [id |-> id, old |-> ctx.table[id],
                                            value |-> value, stored |-> r.stored,
                                            panic |-> r.panic])]

\* Section::traverse from the item at the head of `items`, with the closure of
\* refine_all: every Reloc(id) refines id to the location after the item.
RECURSIVE traverse(_, _, _, _, _)
traverse(ctx, content, items, addr, offset) ==
    IF items = <<>> \/ ctx.panic THEN [ctx |-> ctx, offset |-> offset]
    ELSE LET item == Head(items)
             sz == size(item, content, ctx.table, ctx.location)
         IN IF sz.k = "Diverged"
            THEN [ctx |-> [ctx EXCEPT !.panic = TRUE], offset |-> offset]
            ELSE LET next == NumAdd(offset, sz)
                     moved == [ctx EXCEPT
                                 !.location = NumAdd(addr, next),
                                 !.sizes = IF item.k = "LdInlineAddr"
                                           THEN Append(@, [value |-> eval(item.expr, content,
                                                                          ctx.table, ctx.location),
                                                           size |-> sz])
                                           ELSE @]
                     visited == IF item.k = "Reloc"
                                THEN RefineVar(moved, item.id, moved.location)
                                ELSE moved
                 IN traverse(visited, content, Tail(items), addr, next)

\* eval_addr that takes an org expression of unknown value as 0
eval_addr_ZeroUnknown(section, content, table, location) ==
    IF section.constraints = NoExpr \/ eval(section.constraints, content, table, location) = Unknown
    THEN Exact(0)
    ELSE eval(section.constraints, content, table, location)

\* Section::eval_addr
eval_addr(section, content, table, location) ==
    IF section.constraints = NoExpr
    THEN Exact(0)
    ELSE eval(section.constraints, content, table, location)

\* the body of refine_all's loop for one section
RefineSection(ctx, content, section) ==
    LET addr == eval_addr(section, content, ctx.table, ctx.location)
    IN IF addr.k = "Diverged" THEN [ctx EXCEPT !.panic = TRUE]
       ELSE LET placed == RefineVar([ctx EXCEPT !.location = addr], section.addr, addr)
                walked == traverse(placed, content, section.items, addr, Exact(0))
            IN RefineVar(walked.ctx, section.size, walked.offset)

RECURSIVE RefineSections(_, _, _)
RefineSections(ctx, content, secs) ==
    IF secs = <<>> \/ ctx.panic THEN ctx
    ELSE RefineSections(RefineSection(ctx, content, Head(secs)), content, Tail(secs))

refine_all(content, table) == RefineSections(LinkageContext(table), content, content.sections)

\* VarTable::resolve: two refine_all passes, their results ignored
resolve(content, table) ==
    LET first == refine_all(content, table)
        second == refine_all(content, first.table)
    IN IF first.panic THEN first
       ELSE [second EXCEPT !.refs = first.refs \o @, !.sizes = first.sizes \o @]

(***************************************************************************)
(* The object builder: src/src/program/builder.rs, src/src/object/mod.rs   *)
(***************************************************************************)

Names == {0, 1}

NotDefined == [k |-> "None", id |-> 0]
RelocDef(id) == [k |-> "Reloc", id |-> id]
SectionDef(index) == [k |-> "Section", id |-> index]

AnonSectionPrelude(addr) == [k |-> "AnonSectionPrelude", addr |-> addr, index |-> 0]
InSection(index) == [k |-> "Section", addr |-> NoExpr, index |-> index]
SectionPrelude(index) == [k |-> "SectionPrelude", addr |-> NoExpr, index |-> index]

\* A builder is [content, table, state, panic].
NewBuilder ==
    [content |-> [sections |-> <<>>, symbols |-> [n \in Names |-> NotDefined]],
     table |-> <<>>,
     state |-> AnonSectionPrelude(NoExpr),
     panic |-> FALSE]

\* SymbolTable::define: assert!(self.0[id].is_none())
define(b, id, def) ==
    IF b.content.symbols[id] # NotDefined
    THEN [b EXCEPT !.panic = TRUE]
    ELSE [b EXCEPT !.content.symbols[id] = def]

\* the tail of Content::add_section: a named section is entered in the symbols
define_section(added, name) ==
    IF name = -1 THEN added ELSE define(added, name, SectionDef(Len(added.content.sections)))

\* Content::add_section with freshly allocated addr and size variables;
\* `name` is a name id or -1 for an anonymous section
add_section(b, name) ==
    define_section([b EXCEPT
                      !.table = @ \o <<Unknown, Unknown>>,
                      !.content.sections =
                          Append(@, [constraints |-> NoExpr, addr |-> Len(b.table) + 1,
                                     size |-> Len(b.table) + 2, items |-> <<>>])],
                   name)

\* enter_last_section that forgets the address given by org
enter_last_section_NoAddr(added, addr) ==
    [added EXCEPT !.state = InSection(Len(added.content.sections))]

\* the AnonSectionPrelude arm of current_section, after add_section(None)
enter_last_section(added, addr) ==
    [added EXCEPT !.state = InSection(Len(added.content.sections)),
                  !.content.sections[Len(added.content.sections)].constraints = addr]

\* ProgramBuilder::current_section: the builder afterwards; the current
\* section is the one its state names
current_section(b) ==
    IF b.state.k = "AnonSectionPrelude"
    THEN enter_last_section(add_section(b, -1), b.state.addr)
    ELSE [b EXCEPT !.state = InSection(b.state.index)]

\* section.items.push(node) on the current section of cur
push_item(cur, node) ==
    [cur EXCEPT !.content.sections[cur.state.index].items = Append(@, node)]

\* push that puts the node in front of the fragments of the current section
push_Front(b, node) ==
    [current_section(b) EXCEPT
        !.content.sections[current_section(b).state.index].items = <<node>> \o @]

push(b, node) == push_item(current_section(b), node)

\* set_origin that always opens an anonymous section prelude
set_origin_AlwaysAnon(b, addr) == [b EXCEPT !.state = AnonSectionPrelude(addr)]

set_origin(b, addr) ==
    IF b.state.k = "SectionPrelude"
    THEN [b EXCEPT !.content.sections[b.state.index].constraints = addr]
    ELSE [b EXCEPT !.state = AnonSectionPrelude(addr)]

start_section(b, name) ==
    LET index == Len(b.content.sections) + 1
    IN add_section([b EXCEPT !.state = SectionPrelude(index)], name)

\* the tail of define_fn: the node of the variable just allocated is pushed
push_symbol(bound) ==
    IF bound.panic THEN bound ELSE push(bound, Reloc(Len(bound.table)))

\* define a label: allocate its variable, bind the name, push Reloc(var)
define_symbol(b, name) ==
    push_symbol(define([b EXCEPT !.table = Append(@, Unknown)], name, RelocDef(Len(b.table) + 1)))

(***************************************************************************)
(* Statement analysis: src/src/frontend/semantics/mod.rs and               *)
(* src/src/analysis/semantics/command/directive.rs                         *)
(*                                                                         *)
(* A statement is what the parser hands the semantic actions for one line: *)
(* an optional label, an optional command with its arguments, and whether  *)
(* the parser met an unexpected token in the argument list.                *)
(***************************************************************************)

NoLabel == -1

Stmt(label, cmd, args, bad) == [label |-> label, cmd |-> cmd, args |-> args, bad |-> bad]

RootName == "/my/file"

\* a diagnostic with a single error clause; `stmt` records the statement
\* being analysed when it was emitted (0: none)
Diagnostic(file, message, excerpt, stmt) ==
    [clauses |-> <<[file |-> file, tag |-> "Error", message |-> message, excerpt |-> excerpt]>>,
     stmt |-> stmt]

\* The analysis session: the builder, the diagnostics emitted so far, per
\* statement the calls made on the builder, the pending label and the
\* has_errors flag of the current command.
NewSession ==
    [b |-> NewBuilder, diags |-> <<>>, emitted |-> <<>>, stmt |-> 0,
     label |-> NoLabel, has_errors |-> FALSE, panic |-> FALSE]

emit_diag(s, message) ==
    [s EXCEPT !.diags = Append(@, Diagnostic(RootName, message, TRUE, s.stmt))]

\* a call on the builder that leaves it as b; a call that panics gives it nothing
Backend(s, event, b) ==
    IF b.panic THEN [s EXCEPT !.panic = TRUE]
    ELSE [s EXCEPT !.b = b, !.emitted[s.stmt] = Append(@, event)]

\* Item::lower for the instructions of this model
lower(item) ==
    IF item.k = "Nop" THEN Byte ELSE LdInlineAddr(item.expr)

emit_item(b, item) == push(b, lower(item))

define_label_if_present(s) ==
    IF s.label = NoLabel THEN s
    ELSE Backend([s EXCEPT !.label = NoLabel],
                 [op |-> "define_symbol", name |-> s.label],
                 define_symbol(s.b, s.label))

\* single_arg: the argument, or a diagnostic when there is none; more than
\* one argument fails the assertion
single_arg(s, args) ==
    IF Len(args) >= 1
    THEN IF Len(args) > 1
         THEN [ok |-> FALSE, s |-> [s EXCEPT !.panic = TRUE]]
         ELSE [ok |-> TRUE, s |-> s]
    ELSE [ok |-> FALSE, s |-> emit_diag(s, "OperandCount")]

\* the and_then/map chain of analyze_org on single_arg's result
set_origin_of(arg, args) ==
    IF arg.ok
    THEN Backend(arg.s, [op |-> "set_origin", expr |-> args[1]], set_origin(arg.s.b, args[1]))
    ELSE arg.s

analyze_org(s, args) == set_origin_of(single_arg(s, args), args)

\* analyze_instruction for the mnemonics of this model
analyze_instruction(stmt) ==
    IF stmt.cmd = "Nop"
    THEN [k |-> "Nop"]
    ELSE [k |-> "LdInlineAddr", expr |-> stmt.args[1]]

emit_instruction(s, item) ==
    Backend(s, [op |-> "emit_item", item |-> item], emit_item(s.b, item))

analyze_mnemonic(s, stmt) == emit_instruction(s, analyze_instruction(stmt))

\* the parser's argument list: one diagnostic for an unexpected token, the
\* rest of the line skipped
parse_argument_list(s, stmt) ==
    IF stmt.bad
    THEN [emit_diag(s, "UnexpectedToken") EXCEPT !.has_errors = TRUE]
    ELSE s

\* CommandActions::exit; of the directives of this model none requires a symbol
analyze_command(flushed, stmt) ==
    IF flushed.panic THEN flushed
    ELSE IF stmt.cmd = "Org" THEN analyze_org(flushed, stmt.args)
    ELSE analyze_mnemonic(flushed, stmt)

command_exit(s, stmt) ==
    IF s.has_errors THEN s
    ELSE analyze_command(define_label_if_present(s), stmt)

enter_stmt(s, stmt) ==
    [s EXCEPT !.stmt = @ + 1, !.emitted = Append(@, <<>>),
              !.label = stmt.label, !.has_errors = FALSE]

parse_command(entered, stmt) ==
    IF stmt.cmd = "None" THEN entered
    ELSE command_exit(parse_argument_list(entered, stmt), stmt)

\* StmtContext::exit
stmt_exit(done) == IF done.panic THEN done ELSE define_label_if_present(done)

\* one line: enter_stmt, the command if any, StmtContext::exit
analyze_stmt(s, stmt) == stmt_exit(parse_command(enter_stmt(s, stmt), stmt))

RECURSIVE analyze_token_seq(_, _)
analyze_token_seq(s, stmts) ==
    IF stmts = <<>> \/ s.panic THEN s
    ELSE analyze_token_seq(analyze_stmt(s, Head(stmts)), Tail(stmts))

(***************************************************************************)
(* assemble: src/gbas/src/lib.rs                                           *)
(***************************************************************************)

\* analyze_file: opening the root file either fails with the codebase's
\* error or yields the statements to analyse
analyze_file(read, stmts) ==
    IF read # "Ok"
    THEN [ok |-> FALSE, error |-> read, s |-> NewSession]
    ELSE [ok |-> TRUE, error |-> "None", s |-> analyze_token_seq(NewSession, stmts)]

\* try_assemble: analyse the root file, then link the object
\* the object of an analysed file with the linker's context ctx
linked_with(analysed, ctx) ==
    [analysed EXCEPT !.s.b.table = ctx.table, !.s.panic = ctx.panic]
        @@ [linked |-> TRUE, ctx |-> ctx]

\* Program::link
link(analysed) == linked_with(analysed, resolve(analysed.s.b.content, analysed.s.b.table))

\* the `?` of try_assemble, then the link
link_if_ok(analysed) ==
    IF ~analysed.ok \/ analysed.s.panic
    THEN analysed @@ [linked |-> FALSE, ctx |-> LinkageContext(<<>>)]
    ELSE link(analysed)

try_assemble(read, stmts) == link_if_ok(analyze_file(read, stmts))

\* what assemble returns when no error is reported to the sink
ok_silent(name, try) ==
    try @@ [result |-> IF try.s.panic THEN "Pending" ELSE IF try.ok THEN "Some" ELSE "None",
            diags |-> try.s.diags]

\* assemble without the map_err that reports the error
assemble_Silent(name, read, stmts) == ok_silent(name, try_assemble(read, stmts))

\* .map_err(|error| diagnostics(mk_diagnostic(name, error))).ok()
map_err_ok(name, try) ==
    try @@ [result |-> IF try.s.panic THEN "Pending" ELSE IF try.ok THEN "Some" ELSE "None",
            diags |-> IF try.ok THEN try.s.diags
                      ELSE Append(try.s.diags, Diagnostic(name, try.error, FALSE, 0))]

assemble(name, read, stmts) == map_err_ok(name, try_assemble(read, stmts))

(***************************************************************************)
(* The token-level parser: src/src/frontend/syntax/parser.rs               *)
(*                                                                         *)
(* A token is represented by its kind and a span by the token's index in   *)
(* the stream.  The parser's state is the stream, the index of the         *)
(* lookahead, the calls made on the semantic-action contexts so far (each  *)
(* with the index of the token it was given, 0 when it was given none, and *)
(* the index of the lookahead when it was made) and whether a panic!, an   *)
(* assert_eq! or an unwrap of None was hit.                                *)
(***************************************************************************)

TokenKind == {"ClosingParenthesis", "Colon", "Comma", "Command", "Endm", "Eof", "Eol",
              "Ident", "Literal", "Macro", "OpeningParenthesis"}

LINE_FOLLOW_SET == {"Eol", "Eof"}

Parser(input) == [tokens |-> input, pos |-> 1, actions |-> <<>>, panic |-> FALSE]

Panic(p) == [p EXCEPT !.panic = TRUE]

\* a call on the current context that is given the token at index at
Act(p, name, at) ==
    IF p.panic THEN p
    ELSE [p EXCEPT !.actions = Append(@, [k |-> name, at |-> at, pos |-> p.pos])]

\* peek().unwrap(): the caller has checked that p has not panicked
lookahead(p) == p.tokens[p.pos]

lookahead_is_in(p, kinds) == lookahead(p) \in kinds

bump(p) == IF p.panic \/ p.pos > Len(p.tokens) THEN Panic(p) ELSE [p EXCEPT !.pos = @ + 1]

expect(p, expected) ==
    IF p.panic THEN p ELSE IF lookahead(p) = expected THEN bump(p) ELSE Panic(p)

\* mk_expect!: the token is taken from the stream before its kind is looked at
expect_ident(p, name) ==
    IF p.panic THEN p
    ELSE IF lookahead(p) = "Ident" THEN Act(bump(p), name, p.pos) ELSE Panic(bump(p))

expect_command(p) ==
    IF p.panic THEN p
    ELSE IF lookahead(p) = "Command" THEN Act(bump(p), "enter_command", p.pos)
    ELSE Panic(bump(p))

emit_diagnostic(p, message, at) == Act(p, message, at)

RECURSIVE take_token_while(_, _, _)
take_token_while(p, stop, name) ==
    IF p.panic \/ lookahead(p) \in stop THEN p
    ELSE take_token_while(Act(bump(p), name, p.pos), stop, name)

RECURSIVE skip_to(_, _)
skip_to(p, terminators) ==
    IF p.panic \/ lookahead_is_in(p, terminators) THEN p ELSE skip_to(bump(p), terminators)

\* the second half of parse_terminated_list: what follows the list it parsed
recover(p, terminators) ==
    IF p.panic \/ lookahead_is_in(p, terminators) THEN p
    ELSE skip_to(emit_diagnostic(bump(p), "UnexpectedToken", p.pos), terminators)

parse_atomic_expr(p) ==
    IF p.panic THEN p
    ELSE IF lookahead(p) \in {"Ident", "Literal"} THEN Act(bump(p), "push_atom", p.pos)
    ELSE Panic(bump(p))

close_parenthesis(p, left) ==
    IF p.panic THEN p
    ELSE IF lookahead(p) = "ClosingParenthesis" THEN Act(bump(p), "apply_operator", left)
    ELSE Panic(p)

RECURSIVE parse_expression(_)
parse_parenthesized_expression(p) ==
    close_parenthesis(parse_expression(expect(p, "OpeningParenthesis")), p.pos)

parse_expression(p) ==
    IF p.panic THEN p
    ELSE IF lookahead(p) = "OpeningParenthesis" THEN parse_parenthesized_expression(p)
    ELSE parse_atomic_expr(p)

parse_argument(p) == Act(parse_expression(Act(p, "add_argument", 0)), "exit_argument", 0)

parse_macro_param(p) == expect_ident(p, "add_parameter")

parse_macro_arg(p) ==
    Act(take_token_while(Act(p, "enter_macro_arg", 0), {"Comma", "Eol", "Eof"}, "push_token"),
        "exit_macro_arg", 0)

RECURSIVE parse_item(_, _)
RECURSIVE parse_more(_, _, _)
\* the loop of parse_nonempty_list: while self.consume(delimiter)
parse_more(p, delimiter, item) ==
    IF p.panic \/ lookahead(p) # delimiter THEN p
    ELSE parse_more(parse_item(bump(p), item), delimiter, item)

parse_nonempty_list(p, delimiter, item) == parse_more(parse_item(p, item), delimiter, item)

parse_list(p, delimiter, terminators, item) ==
    IF p.panic \/ lookahead_is_in(p, terminators) THEN p
    ELSE parse_nonempty_list(p, delimiter, item)

parse_terminated_list(p, delimiter, terminators, item) ==
    recover(parse_list(p, delimiter, terminators, item), terminators)

Parser_parse_argument_list(p) == parse_terminated_list(p, "Comma", LINE_FOLLOW_SET, "argument")

parse_macro_arg_list(p) == parse_terminated_list(p, "Comma", LINE_FOLLOW_SET, "macro_arg")

Parser_parse_command(p) == Act(Parser_parse_argument_list(expect_command(p)), "exit_command", 0)

parse_macro_invocation(p, name) ==
    Act(parse_macro_arg_list(Act(p, "enter_macro_invocation", name)), "exit_macro_invocation", 0)

\* the body of a macro definition, once its parameter list has been parsed
parse_macro_body(p) ==
    IF p.panic THEN p
    ELSE IF lookahead(p) = "Endm" THEN Act(bump(p), "push_token", p.pos)
    ELSE IF lookahead(p) = "Eof" THEN emit_diagnostic(p, "UnexpectedEof", p.pos)
    ELSE Panic(p)

parse_macro_def_rest(p) ==
    IF p.panic THEN p
    ELSE IF lookahead(p) = "Eol"
         THEN parse_macro_body(take_token_while(Act(bump(p), "exit_macro_params", 0),
                                                 {"Endm", "Eof"}, "push_token"))
    ELSE IF lookahead(p) = "Eof"
         THEN Act(emit_diagnostic(p, "UnexpectedEof", p.pos), "exit_macro_params", 0)
    ELSE Panic(p)

parse_macro_def(p) ==
    Act(parse_macro_def_rest(
            parse_terminated_list(Act(expect(p, "Macro"), "enter_macro_def", 0),
                                  "Comma", LINE_FOLLOW_SET, "macro_param")),
        "exit_macro_body", 0)

parse_unlabeled_line(p) ==
    IF p.panic THEN p
    ELSE CASE lookahead(p) \in {"Eol", "Eof"} -> p
           [] lookahead(p) = "Command" -> Parser_parse_command(p)
           [] lookahead(p) = "Ident" -> parse_macro_invocation(bump(p), p.pos)
           [] lookahead(p) = "Macro" -> parse_macro_def(p)
           [] OTHER -> emit_diagnostic(bump(p), "UnexpectedToken", p.pos)

\* the line that starts with the identifier at index ident, already taken
parse_after_ident(p, ident) ==
    IF p.panic THEN p
    ELSE IF lookahead(p) = "Colon" THEN parse_unlabeled_line(Act(bump(p), "enter_line", ident))
    ELSE parse_macro_invocation(Act(p, "enter_line", 0), ident)

parse_potentially_labeled_line(p) == Act(parse_after_ident(bump(p), p.pos), "exit_line", 0)

parse_line(p) ==
    IF p.panic THEN p
    ELSE IF lookahead(p) = "Ident" THEN parse_potentially_labeled_line(p)
    ELSE Act(parse_unlabeled_line(Act(p, "enter_line", 0)), "exit_line", 0)

parse_item(p, item) ==
    CASE item = "line" -> parse_line(p)
      [] item = "argument" -> parse_argument(p)
      [] item = "macro_param" -> parse_macro_param(p)
      [] item = "macro_arg" -> parse_macro_arg(p)

parse_file(p) == parse_terminated_list(p, "Eol", {"Eof"}, "line")

parse_src(input) == parse_file(Parser(input))

(***************************************************************************)
(* Macro expansion: src/src/analyze/macros.rs, src/src/session/macros.rs   *)
(*                                                                         *)
(* Indices are 1-based here and 0-based in the code.  An expansion is      *)
(* collected into the tokens the iterator yields, and panic is TRUE when   *)
(* producing the next token indexes an argument out of bounds.             *)
(***************************************************************************)

IdentToken(ident) == [k |-> "Ident", v |-> ident]
LabelToken(ident) == [k |-> "Label", v |-> ident]
LiteralToken(n) == [k |-> "Literal", v |-> n]

MacroDefTokens(params, body) == [params |-> params, body |-> body]

MacroExpansion(def, args) == [def |-> def, args |-> args]

\* Option::None of a position, of a parameter expansion and of a parameter index
NoParamExpansion == [param |-> 0, arg_token |-> 0]
NoPos == [token |-> 0, param_expansion |-> NoParamExpansion]

ParamExpansionPos(param, arg_token) == [param |-> param, arg_token |-> arg_token]

MacroExpansionPos(token, param_expansion) == [token |-> token, param_expansion |-> param_expansion]

\* Token::name: the name of an Ident or a Label, "" for None
token_name(tok) == IF tok.k \in {"Ident", "Label"} THEN tok.v ELSE ""

\* iter().position(): the first parameter equal to ident, 0 for None
param_position(exp, ident) ==
    IF \E i \in 1..Len(exp.def.params) : exp.def.params[i] = ident
    THEN CHOOSE i \in 1..Len(exp.def.params) :
             /\ exp.def.params[i] = ident
             /\ \A j \in 1..(i - 1) : exp.def.params[j] # ident
    ELSE 0

param_expansion_of(param) ==
    IF param = 0 THEN NoParamExpansion ELSE ParamExpansionPos(param, 1)

mk_macro_expansion_pos(exp, token) ==
    IF token > Len(exp.def.body) THEN NoPos
    ELSE MacroExpansionPos(token,
             param_expansion_of(param_position(exp, token_name(exp.def.body[token]))))

\* the caller has checked that the argument exists
next_param_expansion_pos(exp, pe) ==
    IF pe.arg_token + 1 <= Len(exp.args[pe.param])
    THEN ParamExpansionPos(pe.param, pe.arg_token + 1)
    ELSE NoParamExpansion

next_pos(exp, pos) ==
    IF pos.param_expansion # NoParamExpansion
         /\ next_param_expansion_pos(exp, pos.param_expansion) # NoParamExpansion
    THEN MacroExpansionPos(pos.token, next_param_expansion_pos(exp, pos.param_expansion))
    ELSE mk_macro_expansion_pos(exp, pos.token + 1)

\* the substitution made for a body token that names a parameter
substitute_Verbatim(body_token, arg_token, first) == arg_token

substitute(body_token, arg_token, first) ==
    IF body_token.k = "Label" /\ arg_token.k = "Ident" /\ first
    THEN LabelToken(arg_token.v)
    ELSE arg_token

expansion_token(exp, pos) ==
    IF pos.param_expansion = NoParamExpansion THEN exp.def.body[pos.token]
    ELSE substitute(exp.def.body[pos.token],
                    exp.args[pos.param_expansion.param][pos.param_expansion.arg_token],
                    pos.param_expansion.arg_token = 1)

\* self.args[param] or self.args[param][arg_token] is out of bounds at pos
out_of_bounds(exp, pos) ==
    /\ pos.param_expansion # NoParamExpansion
    /\ \/ pos.param_expansion.param > Len(exp.args)
       \/ pos.param_expansion.arg_token > Len(exp.args[pos.param_expansion.param])

\* MacroExpansionIter::next, called until it returns None or panics
RECURSIVE collect(_, _, _)
collect(exp, pos, yielded) ==
    IF pos = NoPos THEN [tokens |-> yielded, panic |-> FALSE]
    ELSE IF out_of_bounds(exp, pos) THEN [tokens |-> yielded, panic |-> TRUE]
    ELSE collect(exp, next_pos(exp, pos), Append(yielded, expansion_token(exp, pos)))

\* MacroExpansionIter::new and the tokens it goes on to yield
MacroExpansionIter(def, args) ==
    collect(MacroExpansion(def, args), mk_macro_expansion_pos(MacroExpansion(def, args), 1), <<>>)

\* the argument tokens that do not name a macro of the name table
Unbound(arg, names) ==
    LET Keep(tok) == ~(token_name(tok) \in DOMAIN names /\ names[token_name(tok)] = "Macro")
    IN SelectSeq(arg, Keep)

\* a session is [macros, names]; the stream that expand_macro pushes on
\* self.tokens, as the parser then reads it
expand_macro_Resolving(session, id, args) ==
    MacroExpansionIter(session.macros[id],
                       [i \in 1..Len(args) |-> Unbound(args[i], session.names)])

expand_macro(session, id, args) == MacroExpansionIter(session.macros[id], args)

(***************************************************************************)
(* Line semantics: src/src/assembler/semantics/actions/instr_line/mod.rs,  *)
(* with did_parse_label of src/src/analyze/semantics/actions/instr_line/   *)
(* label.rs and did_parse_instr of src/src/semantics/actions/instr_line/   *)
(* macro_instr.rs.  An identifier is its spelling, a sequence of           *)
(* characters.  The session is a record: names (the name table), allocated *)
(* (the builder's symbol ids), log (the calls it received) and panic.      *)
(* The semantics is a record: session, state (of the line) and rule (what  *)
(* will_parse_instr answered).  The name table itself (resolve_name,       *)
(* define_name, start_scope), binds_to_label and the actions of a built-in *)
(* instruction are not among the sources; they follow the specification.   *)
(***************************************************************************)

name_visibility_Global(ident) == "Global"

name_visibility(ident) == IF ident[1] = "_" THEN "Local" ELSE "Global"

BuiltinMnemonic(mnemonic) == [k |-> "BuiltinMnemonic", mnemonic |-> mnemonic]

Operand(operand) == [k |-> "Operand", operand |-> operand]

ResolvedKeyword(keyword) == [k |-> "Keyword", keyword |-> keyword]

ResolvedMacro(id) == [k |-> "Macro", id |-> id]

ResolvedSymbol(id) == [k |-> "Symbol", id |-> id]

Unresolved == [k |-> "None"]

\* the keywords the model keeps of the table
KEYWORDS ==
    << <<(<<"n", "o", "p">>), BuiltinMnemonic("Nop")>>,
       <<(<<"e", "q", "u">>), BuiltinMnemonic("Equ")>>,
       <<(<<"m", "a", "c", "r", "o">>), BuiltinMnemonic("Macro")>>,
       <<(<<"s", "e", "c", "t", "i", "o", "n">>), BuiltinMnemonic("Section")>>,
       <<(<<"h", "l">>), Operand("Hl")>> >>

binds_to_label(mnemonic) == mnemonic \in {"Equ", "Macro", "Section"}

EmptyTable == [ident \in {} |-> Unresolved]

table_get(table, ident) == IF ident \in DOMAIN table THEN table[ident] ELSE Unresolved

table_insert(table, ident, entry) ==
    [i \in DOMAIN table \cup {ident} |-> IF i = ident THEN entry ELSE table[i]]

\* BiLevelNameTable: the global map, the local map of the current scope, and the
\* number of scopes opened so far
NameTable(global, local, scope) == [global |-> global, local |-> local, scope |-> scope]

Call(s, event) == [s EXCEPT !.log = Append(@, event)]

resolve_name(s, ident) ==
    IF name_visibility(ident) = "Global" THEN table_get(s.names.global, ident)
    ELSE table_get(s.names.local, ident)

define_name(s, ident, entry) ==
    Call(IF name_visibility(ident) = "Global"
             THEN [s EXCEPT !.names.global = table_insert(@, ident, entry)]
             ELSE [s EXCEPT !.names.local = table_insert(@, ident, entry)],
         [k |-> "DefineName", ident |-> ident, entry |-> entry])

start_scope(s) ==
    Call([s EXCEPT !.names.local = EmptyTable, !.names.scope = @ + 1], [k |-> "StartScope"])

alloc_symbol(s) ==
    Call([s EXCEPT !.allocated = @ + 1], [k |-> "AllocSymbol", id |-> s.allocated])

\* define_symbol(id, span, Expr([Location])); the span is the label's spelling
Session_define_symbol(s, id, span) ==
    Call(s, [k |-> "DefineSymbol", id |-> id, at |-> span, expr |-> <<"Location">>])

Session_emit_diag_Silent(s, message, span) == s

Session_emit_diag(s, message, span) ==
    Call(s, [k |-> "EmitDiag", message |-> message, at |-> span])

Session_expand_macro(s, id) == Call(s, [k |-> "ExpandMacro", id |-> id])

\* define_macro gives the next macro id, the index of the definition in macros (which
\* a sequence counts from 1); the model keeps no tokens of the definition
Session_define_macro(s) ==
    Call([s EXCEPT !.macros = Append(@, MacroDefTokens(<<>>, <<>>))],
         [k |-> "DefineMacro", id |-> Len(s.macros) + 1])

\* the session after a fresh construction: the keywords are the only names
RECURSIVE define_keywords(_, _)
define_keywords(table, i) ==
    IF i > Len(KEYWORDS) THEN table
    ELSE define_keywords(table_insert(table, KEYWORDS[i][1], ResolvedKeyword(KEYWORDS[i][2])),
                         i + 1)

SessionImpl_new ==
    [names |-> NameTable(define_keywords(EmptyTable, 1), EmptyTable, 0),
     macros |-> <<>>, allocated |-> 0, log |-> <<>>, panic |-> FALSE]

NoPendingLabel == <<>>

InstrLineState(label) == [k |-> "InstrLine", label |-> label]

LabelState(parent, label) == [k |-> "Label", parent |-> parent, label |-> label]

BuiltinInstrState(label, mnemonic) ==
    [k |-> "BuiltinInstr", label |-> label, mnemonic |-> mnemonic]

MacroDefState(label) == [k |-> "MacroDef", label |-> label]

MacroInstrState(parent, id) == [k |-> "MacroInstr", parent |-> parent, name |-> id]

InstrRule(rule, sem, next) == [sem EXCEPT !.rule = rule, !.state = next]

\* the symbol id of a label, with the session it leaves
reloc_lookup(s, ident) ==
    LET resolved == resolve_name(s, ident) IN
    CASE resolved.k = "Keyword" -> [s |-> [s EXCEPT !.panic = TRUE], id |-> -1]
      [] resolved.k = "Symbol" -> [s |-> s, id |-> resolved.id]
      [] resolved.k = "None" ->
             [s |-> define_name(alloc_symbol(s), ident, ResolvedSymbol(s.allocated)),
              id |-> s.allocated]
      [] resolved.k = "Macro" ->
             [s |-> alloc_symbol(Session_emit_diag(s, "MacroNameInExpr", ident)),
              id |-> s.allocated]

define_location(looked, span) ==
    IF looked.s.panic THEN looked.s ELSE Session_define_symbol(looked.s, looked.id, span)

flush_label_Dropping(sem) == [sem EXCEPT !.state.label = NoPendingLabel]

flush_label(sem) ==
    IF sem.state.label = NoPendingLabel THEN sem
    ELSE [sem EXCEPT
             !.state.label = NoPendingLabel,
             !.session =
                 define_location(
                     reloc_lookup(IF name_visibility(sem.state.label) = "Global"
                                      THEN start_scope(sem.session) ELSE sem.session,
                                  sem.state.label),
                     sem.state.label)]

will_parse_label(sem, label) ==
    [flush_label(sem) EXCEPT !.state = LabelState(flush_label(sem).state, label)]

did_parse_label(sem) ==
    [sem EXCEPT !.state = [sem.state.parent EXCEPT !.label = sem.state.label]]

will_parse_instr_Flushing(sem, ident) ==
    LET resolved == resolve_name(sem.session, ident) IN
    CASE resolved.k = "Keyword" /\ resolved.keyword.k = "BuiltinMnemonic" ->
             InstrRule("BuiltinInstr", flush_label(sem),
                       BuiltinInstrState(NoPendingLabel, resolved.keyword.mnemonic))
      [] resolved.k = "Macro" ->
             InstrRule("MacroInstr", flush_label(sem),
                       MacroInstrState(flush_label(sem).state, resolved.id))
      [] resolved.k = "Symbol" ->
             InstrRule("Error",
                       [sem EXCEPT !.session =
                            Session_emit_diag(@, "CannotUseSymbolNameAsMacroName", ident)],
                       sem.state)
      [] OTHER ->
             InstrRule("Error",
                       [sem EXCEPT !.session = Session_emit_diag(@, "NotAMnemonic", ident)],
                       sem.state)

flush_unless_bound(sem, mnemonic) == IF ~binds_to_label(mnemonic) THEN flush_label(sem) ELSE sem

will_parse_instr(sem, ident) ==
    LET resolved == resolve_name(sem.session, ident) IN
    CASE resolved.k = "Keyword" /\ resolved.keyword.k = "BuiltinMnemonic" ->
             InstrRule("BuiltinInstr", flush_unless_bound(sem, resolved.keyword.mnemonic),
                       BuiltinInstrState(
                           flush_unless_bound(sem, resolved.keyword.mnemonic).state.label,
                           resolved.keyword.mnemonic))
      [] resolved.k = "Macro" ->
             InstrRule("MacroInstr", flush_label(sem),
                       MacroInstrState(flush_label(sem).state, resolved.id))
      [] resolved.k = "Symbol" ->
             InstrRule("Error",
                       [sem EXCEPT !.session =
                            Session_emit_diag(@, "CannotUseSymbolNameAsMacroName", ident)],
                       sem.state)
      [] OTHER ->
             InstrRule("Error",
                       [sem EXCEPT !.session = Session_emit_diag(@, "NotAMnemonic", ident)],
                       sem.state)

\* the end of the instruction: a macro call is expanded, the macro directive starts
\* a definition named by its label, another built-in instruction is analysed with
\* the label it was given, and an unknown one leaves the line as it was
did_parse_instr(sem) ==
    CASE sem.rule = "MacroInstr" ->
             [sem EXCEPT !.session = Session_expand_macro(@, sem.state.name),
                         !.state = sem.state.parent, !.rule = "Done"]
      [] sem.rule = "BuiltinInstr" ->
             [sem EXCEPT !.session = Call(@, [k |-> "BuiltinInstr",
                                              mnemonic |-> sem.state.mnemonic,
                                              label |-> sem.state.label]),
                         !.state = IF sem.state.mnemonic = "Macro"
                                       THEN MacroDefState(sem.state.label)
                                       ELSE InstrLineState(NoPendingLabel),
                         !.rule = "Done"]
      [] OTHER -> [sem EXCEPT !.rule = "Done"]

\* the end of a macro definition: the label, if there is one, names the new macro
end_macro_def(sem) ==
    IF sem.state.label = NoPendingLabel THEN sem
    ELSE [sem EXCEPT !.session =
              define_name(Session_define_macro(@), sem.state.label,
                          ResolvedMacro(Len(sem.session.macros) + 1))]

\* the end of the line: a label still pending is flushed; the lines of a macro
\* definition are taken with the line of the directive
did_parse_line(sem) ==
    IF sem.state.k = "MacroDef" THEN [end_macro_def(sem) EXCEPT !.rule = "Eol"]
    ELSE [flush_label(sem) EXCEPT !.rule = "Eol"]

\* the next line starts with no label pending
will_parse_line(sem) == [sem EXCEPT !.state = InstrLineState(NoPendingLabel), !.rule = "Line"]

(***************************************************************************)
(* Idle values of the variables a specification does not use               *)
(***************************************************************************)

RomIdle == sections = <<>> /\ rom = <<>> /\ romDone = FALSE

LinkIdle ==
    /\ object = NewBuilder.content
    /\ state = NewBuilder.state
    /\ vars = <<>>
    /\ phase = "off"
    /\ ops = 0
    /\ passes = 0
    /\ panicked = FALSE
    /\ refLog = <<>>
    /\ sizeLog = <<>>

SourceIdle ==
    /\ fileSystem = <<>>
    /\ textCache = <<>>
    /\ fsReads = <<>>
    /\ inclusions = <<>>
    /\ analysisLog = <<>>

NotExpanded == [clauses |-> <<>>]

DiagIdle == compactDiag = <<>> /\ expandedDiag = NotExpanded

RootIdle ==
    /\ rootRead = "None"
    /\ src = <<>>
    /\ pc = 0
    /\ diags = <<>>
    /\ emitted = <<>>
    /\ result = "Pending"

AsmIdle == RootIdle /\ SourceIdle /\ DiagIdle

NotParsed == [pos |-> 0, actions |-> <<>>, panic |-> FALSE]

ParseIdle == tokenStream = <<>> /\ parsed = NotParsed

MacroIdle == macroTable = <<>> /\ callArgs = <<>> /\ expansions = <<>>

LineIdle == nameTable = <<>> /\ lineState = <<>> /\ allocated = 0 /\ sessionLog = <<>>

FrontIdle == ParseIdle /\ MacroIdle /\ LineIdle

(***************************************************************************)
(* SpecRom: Program::into_rom applied to any list of binary sections       *)
(***************************************************************************)

RomInit ==
    /\ sections \in SeqsUpTo(BinarySection, MaxSections)
    /\ rom = <<>>
    /\ romDone = FALSE
    /\ LinkIdle
    /\ AsmIdle
    /\ FrontIdle

IntoRom ==
    /\ ~romDone
    /\ rom' = into_rom(sections)
    /\ romDone' = TRUE
    /\ UNCHANGED <<sections, linkVars, asmVars, frontVars>>

RomNext == IntoRom

SpecRom == RomInit /\ [][RomNext]_allVars

(***************************************************************************)
(* SpecLink: an object is built by ProgramBuilder operations, then linked  *)
(***************************************************************************)

\* Bound: the number of builder operations that make up an object.
MaxOps == 4
\* Bound: the number of refine_all passes run over an object.
MaxPasses == 3

\* Name 0 is used as a label, name 1 as a section name.
Items == {Byte, LdInlineAddr(Name(0)), LdInlineAddr(Literal(65280)), Reserved(Literal(2))}
Origins == {Literal(65277), Name(1)}

Builder == [content |-> object, table |-> vars, state |-> state, panic |-> panicked]

Install(b) ==
    /\ object' = b.content
    /\ vars' = b.table
    /\ state' = b.state
    /\ panicked' = b.panic

Building == phase = "build" /\ ~panicked /\ ops < MaxOps

BuildFrame == ops' = ops + 1 /\ UNCHANGED <<phase, passes, refLog, sizeLog, romVars, asmVars, frontVars>>

LinkInit ==
    /\ object = NewBuilder.content
    /\ state = NewBuilder.state
    /\ vars = <<>>
    /\ phase = "build"
    /\ ops = 0
    /\ passes = 0
    /\ panicked = FALSE
    /\ refLog = <<>>
    /\ sizeLog = <<>>
    /\ RomIdle
    /\ AsmIdle
    /\ FrontIdle

EmitItem == \E item \in Items : Building /\ Install(push(Builder, item)) /\ BuildFrame

DefineSymbol == Building /\ Install(define_symbol(Builder, 0)) /\ BuildFrame

SetOrigin == \E addr \in Origins : Building /\ Install(set_origin(Builder, addr)) /\ BuildFrame

StartSection == Building /\ Install(start_section(Builder, 1)) /\ BuildFrame

BeginLink ==
    /\ phase = "build"
    /\ ~panicked
    /\ phase' = "link"
    /\ UNCHANGED <<object, state, vars, ops, passes, panicked, refLog, sizeLog, romVars, asmVars, frontVars>>

LinkFrame == UNCHANGED <<object, state, phase, ops, romVars, asmVars, frontVars>>

Resolve ==
    /\ phase = "link"
    /\ passes = 0
    /\ LET ctx == resolve(object, vars)
       IN /\ vars' = ctx.table
          /\ refLog' = ctx.refs
          /\ sizeLog' = ctx.sizes
          /\ panicked' = ctx.panic
    /\ passes' = 2
    /\ LinkFrame

\* one more refine_all pass over the resolved object
RefineAll ==
    /\ phase = "link"
    /\ passes >= 2
    /\ passes < MaxPasses
    /\ ~panicked
    /\ LET ctx == refine_all(object, vars)
       IN /\ vars' = ctx.table
          /\ refLog' = ctx.refs
          /\ sizeLog' = ctx.sizes
          /\ panicked' = ctx.panic
    /\ passes' = passes + 1
    /\ LinkFrame

LinkNext ==
    \/ EmitItem
    \/ DefineSymbol
    \/ SetOrigin
    \/ StartSection
    \/ BeginLink
    \/ Resolve
    \/ RefineAll

SpecLink == LinkInit /\ [][LinkNext]_allVars

(***************************************************************************)
(* SpecRefine: refine applied to any stored value and any incoming value   *)
(***************************************************************************)

\* Bound: the largest interval end point drawn for a stored or incoming value.
MaxVal == 3
\* Bound: the number of successive refinements of the variable.
MaxRefines == 2

Values == {Unknown} \cup UNION {{Range(a, b) : b \in a..MaxVal} : a \in 0..MaxVal}

RefineInit ==
    /\ vars \in {<<v>> : v \in Values}
    /\ phase = "refine"
    /\ object = NewBuilder.content
    /\ state = NewBuilder.state
    /\ ops = 0
    /\ passes = 0
    /\ panicked = FALSE
    /\ refLog = <<>>
    /\ sizeLog = <<>>
    /\ RomIdle
    /\ AsmIdle
    /\ FrontIdle

RefineOne ==
    \E value \in Values :
        /\ phase = "refine"
        /\ passes < MaxRefines
        /\ ~panicked
        /\ LET ctx == RefineVar(LinkageContext(vars), 1, value)
           IN /\ vars' = ctx.table
              /\ refLog' = ctx.refs
              /\ panicked' = ctx.panic
        /\ passes' = passes + 1
        /\ UNCHANGED <<object, state, phase, ops, sizeLog, romVars, asmVars, frontVars>>

RefineNext == RefineOne

SpecRefine == RefineInit /\ [][RefineNext]_allVars

(***************************************************************************)
(* SpecAsm: assemble applied to any root file                              *)
(***************************************************************************)

\* Bound: the number of statements of the root file.
MaxStmts == 3

\* nop / L0: nop / L0: nop ) / org $FEFD / org / org 1, 2 / org 2/1 / ld a, (L0)
Stmts ==
    {Stmt(NoLabel, "Nop", <<>>, FALSE),
     Stmt(0, "Nop", <<>>, FALSE),
     Stmt(0, "Nop", <<>>, TRUE),
     Stmt(NoLabel, "Org", <<Literal(65277)>>, FALSE),
     Stmt(NoLabel, "Org", <<>>, FALSE),
     Stmt(NoLabel, "Org", <<Literal(1), Literal(2)>>, FALSE),
     Stmt(NoLabel, "Org", <<Binary("Division", Literal(2), Literal(1))>>, FALSE),
     Stmt(NoLabel, "Ld", <<Name(0)>>, FALSE)}

\* what opening the root file can give: its text, or a CodebaseError
ReadErrors == {"IoError(NotFound)", "IoError(Other)", "Utf8Error"}

AsmInit ==
    /\ \/ rootRead = "Ok" /\ src \in SeqsUpTo(Stmts, MaxStmts)
       \/ rootRead \in ReadErrors /\ src = <<>>
    /\ pc = 0
    /\ diags = <<>>
    /\ emitted = <<>>
    /\ result = "Pending"
    /\ object = NewBuilder.content
    /\ state = NewBuilder.state
    /\ vars = <<>>
    /\ phase = "asm"
    /\ ops = 0
    /\ passes = 0
    /\ panicked = FALSE
    /\ refLog = <<>>
    /\ sizeLog = <<>>
    /\ RomIdle
    /\ FrontIdle
    /\ SourceIdle
    /\ DiagIdle

\* the state in which assemble has ended with outcome r
Returned(r) ==
    /\ object' = r.s.b.content
    /\ state' = r.s.b.state
    /\ vars' = r.s.b.table
    /\ panicked' = r.s.panic
    /\ diags' = r.diags
    /\ emitted' = r.s.emitted
    /\ pc' = r.s.stmt
    /\ result' = r.result
    /\ passes' = IF r.linked THEN 2 ELSE 0
    /\ refLog' = r.ctx.refs
    /\ sizeLog' = r.ctx.sizes
    /\ phase' = IF r.s.panic THEN "aborted" ELSE "done"

Assemble ==
    /\ phase = "asm"
    /\ Returned(assemble(RootName, rootRead, src))
    /\ UNCHANGED <<rootRead, src, ops, romVars, frontVars, sourceVars, diagVars>>

AsmNext == Assemble

SpecAsm == AsmInit /\ [][AsmNext]_allVars

(***************************************************************************)
(* Included files: src/src/codebase.rs, src/src/analysis/session.rs and    *)
(* the include directive of                                                *)
(* src/src/analysis/semantics/command/directive.rs                         *)
(*                                                                         *)
(* A file is a sequence of lines, each a nop or an include directive with  *)
(* its arguments. The analysis of a file is followed line by line: the     *)
(* files being analysed form a stack, the call stack of analyze_file.      *)
(***************************************************************************)

Readable(lines) == [ok |-> TRUE, lines |-> lines]

Unreadable(error) == [ok |-> FALSE, error |-> error]

StringArg(path) == [k |-> "String", path |-> path]

NumberArg == [k |-> "Number"]

NopLine == [cmd |-> "Nop", args |-> <<>>]

IncludeLine(args) == [cmd |-> "Include", args |-> args]

\* the spans of the mnemonic or directive and of its argument on line `line`
\* (counted from 0) of buffer `buf`
CommandSpan(buf, line) == [buf |-> buf, line |-> line, token |-> "command"]

ArgSpan(buf, line) == [buf |-> buf, line |-> line, token |-> "arg"]

NoSpan == [buf |-> -1, line |-> 0, token |-> "none"]

\* a file being analysed: its buffer and the number of its lines analysed so far
Frame(buf, line) == [buf |-> buf, line |-> line]

Log(a, event) == [a EXCEPT !.log = Append(@, event)]

emit_diag_at(a, message, span) ==
    Log(a, [k |-> "EmitDiag", message |-> message, at |-> span])

\* FileSystem::read_file
read_file(a, path) == [a EXCEPT !.reads = Append(@, path)]

\* TextCache::add_src_buf; the new buffer's BufId is the number of buffers before
add_src_buf(a, name, text) == [a EXCEPT !.cache = Append(@, [name |-> name, src |-> text])]

\* FileCodebase::open: the file is read and its text added to the cache
open(a, path) ==
    IF a.fs[path].ok
    THEN [ok |-> TRUE, buf |-> Len(a.cache),
          a |-> add_src_buf(read_file(a, path), path, a.fs[path].lines)]
    ELSE [ok |-> FALSE, error |-> a.fs[path].error, a |-> read_file(a, path)]

\* the analysis of the tokens of an opened file begins
analyze_token_seq_of(opened, from) ==
    IF opened.ok
    THEN [ok |-> TRUE,
          a |-> Log([opened.a EXCEPT !.stack = Append(@, Frame(opened.buf, 0))],
                    [k |-> "AnalyzeTokenSeq", buf |-> opened.buf, at |-> from])]
    ELSE opened

\* Session::analyze_file up to the first line of the file: lex_file opens the
\* file, and its error is returned at once
session_analyze_file(a, path, from) == analyze_token_seq_of(open(a, path), from)

\* the message of a CodebaseError
Message_from(error) == IF error = "Utf8Error" THEN "InvalidUtf8" ELSE "IoError"

\* the line has been analysed
advance(a) == [a EXCEPT !.stack[Len(a.stack)].line = @ + 1]

\* reduce_include: the path and the span of the single string argument; the
\* lines of this model have at most one argument
reduce_include(a, span, args, argSpan) ==
    IF args = <<>>
    THEN [ok |-> FALSE, a |-> emit_diag_at(a, "OperandCount", span)]
    ELSE IF args[1].k = "String"
         THEN [ok |-> TRUE, a |-> a, path |-> args[1].path, span |-> argSpan]
         ELSE [ok |-> FALSE, a |-> emit_diag_at(a, "ExpectedString", argSpan)]

analyze_include_Silent(outcome, span) == IF outcome.ok THEN outcome.a ELSE advance(outcome.a)

\* the tail of analyze_include: the error of analyze_file becomes a diagnostic at
\* the span of the argument
analyze_include_result(outcome, span) ==
    IF outcome.ok THEN outcome.a
    ELSE advance(emit_diag_at(outcome.a, Message_from(outcome.error), span))

analyze_include_of(reduced) ==
    IF reduced.ok
    THEN analyze_include_result(session_analyze_file(reduced.a, reduced.path, reduced.span),
                                reduced.span)
    ELSE advance(reduced.a)

analyze_include(a, buf, line, args) ==
    analyze_include_of(reduce_include(a, CommandSpan(buf, line), args, ArgSpan(buf, line)))

TopFrame(a) == a.stack[Len(a.stack)]

NextLine(a) == a.cache[TopFrame(a).buf + 1].src[TopFrame(a).line + 1]

\* one line of the innermost file
analyze_line(a) ==
    IF NextLine(a).cmd = "Nop"
    THEN advance(Log(a, [k |-> "EmitItem", at |-> CommandSpan(TopFrame(a).buf, TopFrame(a).line)]))
    ELSE analyze_include(a, TopFrame(a).buf, TopFrame(a).line, NextLine(a).args)

exit_file_Rewinding(a) ==
    Log([a EXCEPT !.stack = IF Len(a.stack) = 1 THEN <<>>
                            ELSE [SubSeq(a.stack, 1, Len(a.stack) - 1)
                                      EXCEPT ![Len(a.stack) - 1].line = 0]],
        [k |-> "Returned", buf |-> TopFrame(a).buf])

\* analyze_token_seq has reached the end of the file: analyze_file returns Ok and
\* the line of the include directive, if any, is done
exit_file(a) ==
    Log([a EXCEPT !.stack = IF Len(a.stack) = 1 THEN <<>>
                            ELSE [SubSeq(a.stack, 1, Len(a.stack) - 1)
                                      EXCEPT ![Len(a.stack) - 1].line = @ + 1]],
        [k |-> "Returned", buf |-> TopFrame(a).buf])

(***************************************************************************)
(* SpecInclude: the analysis of a root file that includes other files      *)
(***************************************************************************)

\* the most files under analysis at a time
MaxDepth == 3

\* the most lines of the root file
MaxRootLines == 3

Paths == {RootName, "a.s", "b.s"}

Lines ==
    {NopLine, IncludeLine(<<StringArg("a.s")>>), IncludeLine(<<StringArg("b.s")>>),
     IncludeLine(<<>>), IncludeLine(<<NumberArg>>)}

FileSystems ==
    {[path \in Paths |-> CASE path = RootName -> Readable(root)
                           [] path = "a.s" -> fileA
                           [] OTHER -> fileB] :
        root \in SeqsUpTo(Lines, MaxRootLines),
        fileA \in {Readable(<<NopLine>>),
                   Readable(<<NopLine, IncludeLine(<<StringArg("b.s")>>)>>),
                   Readable(<<IncludeLine(<<StringArg("b.s")>>), NopLine>>),
                   Readable(<<IncludeLine(<<StringArg("a.s")>>)>>)}
                      \cup {Unreadable(error) : error \in ReadErrors},
        fileB \in {Readable(<<NopLine>>), Unreadable("Utf8Error")}}

Analysis ==
    [fs |-> fileSystem, cache |-> textCache, reads |-> fsReads, stack |-> inclusions,
     log |-> analysisLog]

IncludeInit ==
    /\ fileSystem \in FileSystems
    /\ textCache = <<>>
    /\ fsReads = <<>>
    /\ inclusions = <<>>
    /\ analysisLog = <<>>
    /\ DiagIdle
    /\ RootIdle
    /\ RomIdle
    /\ LinkIdle
    /\ FrontIdle

Analysed(a) ==
    /\ textCache' = a.cache
    /\ fsReads' = a.reads
    /\ inclusions' = a.stack
    /\ analysisLog' = a.log
    /\ UNCHANGED <<fileSystem, rootRead, src, pc, diags, emitted, result, diagVars,
                   romVars, linkVars, frontVars>>

\* the root file is opened and its analysis begins
AnalyzeRoot ==
    /\ fsReads = <<>>
    /\ Analysed(session_analyze_file(Analysis, RootName, NoSpan).a)

AnalyzeLine ==
    /\ inclusions # <<>>
    /\ TopFrame(Analysis).line < Len(textCache[TopFrame(Analysis).buf + 1].src)
    /\ Len(analyze_line(Analysis).stack) <= MaxDepth
    /\ Analysed(analyze_line(Analysis))

ReturnFromFile ==
    /\ inclusions # <<>>
    /\ TopFrame(Analysis).line = Len(textCache[TopFrame(Analysis).buf + 1].src)
    /\ Analysed(exit_file(Analysis))

IncludeNext == AnalyzeRoot \/ AnalyzeLine \/ ReturnFromFile

SpecInclude == IncludeInit /\ [][IncludeNext]_allVars

(***************************************************************************)
(* Expansion of a diagnostic: src/src/session/diagnostics/mod.rs           *)
(*                                                                         *)
(* A span is a range of a buffer or an inclusive range of positions in the *)
(* expansion of a macro call; the call holds the span of the macro's name  *)
(* at the call and the spans of the definition.                            *)
(***************************************************************************)

BufSpan(buf, range) == [k |-> "Buf", buf_id |-> buf, range |-> range]

MacroDefSpans(name, body) == [name |-> name, body |-> body]

MacroCall(name, def) == [name |-> name, def |-> def]

MacroSpan(first, last, context) ==
    [k |-> "Macro", first |-> first, last |-> last, context |-> context]

StrippedBufSpan(buf, range) == [buf_id |-> buf, range |-> range]

\* the canonical form of a span: a buffer and a range; for positions in body
\* tokens, from the start of the first token to the end of the last
RECURSIVE to_stripped(_)
to_stripped(span) ==
    IF span.k = "Buf" THEN StrippedBufSpan(span.buf_id, span.range)
    ELSE StrippedBufSpan(
             to_stripped(span.context.def.body[span.first.token]).buf_id,
             <<to_stripped(span.context.def.body[span.first.token]).range[1],
               to_stripped(span.context.def.body[span.last.token]).range[2]>>)

ExpandedDiagnosticClause(stripped, tag, message) ==
    [buf_id |-> stripped.buf_id, tag |-> tag, message |-> message,
     location |-> stripped.range]

mk_called_here_clause_None(span) == <<>>

\* Option: the empty sequence is None
mk_called_here_clause(span) ==
    IF span.k = "Macro"
    THEN <<ExpandedDiagnosticClause(to_stripped(span.context.name), "Note",
                                    [k |-> "CalledHere",
                                     name |-> to_stripped(span.context.name)])>>
    ELSE <<>>

\* CompactDiag::expand
expand(diag) ==
    [clauses |->
         <<ExpandedDiagnosticClause(to_stripped(diag.main.highlight), "Error",
                                    diag.main.message)>>
             \o mk_called_here_clause(diag.main.highlight)]

(***************************************************************************)
(* SpecDiag: expand applied to a diagnostic at any span                    *)
(***************************************************************************)

\* the most tokens of a macro body
MaxBodySpans == 2

TokenRanges == {<<0, 1>>, <<2, 3>>, <<10, 11>>}

\* spans of tokens read from a file
BufSpans == {BufSpan(buf, range) : buf \in {0, 1}, range \in TokenRanges}

\* the spans of a macro defined in buffer 1
DefSpans ==
    {MacroDefSpans(BufSpan(1, <<0, 1>>), body) :
        body \in SeqsUpTo({BufSpan(1, range) : range \in TokenRanges \ {<<0, 1>>}},
                          MaxBodySpans) \ {<<>>}}

\* ranges of body tokens expanded by a call whose macro name is at a span of names
SpansInCalls(names) ==
    UNION {{MacroSpan(MacroExpansionPos(ends[1], NoParamExpansion),
                      MacroExpansionPos(ends[2], NoParamExpansion),
                      MacroCall(name, def)) :
                ends \in {e \in (1..Len(def.body)) \X (1..Len(def.body)) : e[1] <= e[2]}} :
           name \in names, def \in DefSpans}

\* a call in a file, and a call in the body of a macro called in buffer 0
HighlightSpans ==
    BufSpans \cup SpansInCalls(BufSpans)
        \cup SpansInCalls({s \in SpansInCalls({BufSpan(0, <<10, 11>>)}) : s.first = s.last})

CompactDiags ==
    {[main |-> [message |-> [k |-> message], highlight |-> highlight]] :
        message \in {"AfOutsideStackOperation", "OperandCount"},
        highlight \in HighlightSpans}

DiagInit ==
    /\ compactDiag \in CompactDiags
    /\ expandedDiag = NotExpanded
    /\ RootIdle
    /\ SourceIdle
    /\ RomIdle
    /\ LinkIdle
    /\ FrontIdle

Expand ==
    /\ expandedDiag = NotExpanded
    /\ expandedDiag' = expand(compactDiag)
    /\ UNCHANGED <<compactDiag, rootRead, src, pc, diags, emitted, result, sourceVars,
                   romVars, linkVars, frontVars>>

DiagNext == Expand

SpecDiag == DiagInit /\ [][DiagNext]_allVars

(***************************************************************************)
(* SpecParse: parse_src applied to any token stream                        *)
(***************************************************************************)

\* the largest number of tokens before Eof
MaxTokens == 5

\* what the lexer can hand over: any tokens, then Eof
TokenStreams == {Append(t, "Eof") : t \in SeqsUpTo(TokenKind \ {"Eof"}, MaxTokens)}

ParseInit ==
    /\ tokenStream \in TokenStreams
    /\ parsed = NotParsed
    /\ MacroIdle
    /\ LineIdle
    /\ RomIdle
    /\ LinkIdle
    /\ AsmIdle

ParseSrc ==
    /\ parsed = NotParsed
    /\ parsed' = parse_src(tokenStream)
    /\ UNCHANGED <<tokenStream, macroTable, callArgs, expansions, nameTable, lineState,
                   allocated, sessionLog, romVars, linkVars, asmVars>>

ParseNext == ParseSrc

SpecParse == ParseInit /\ [][ParseNext]_allVars

(***************************************************************************)
(* SpecMacro: calls of one macro, between definitions of other names       *)
(***************************************************************************)

\* the largest number of tokens of a macro body
MaxBody == 2
\* the largest number of tokens of one argument
MaxArgLen == 2
\* the largest number of calls of the macro
MaxCalls == 2

\* the macro's parameters are the first N of these; the call has up to as many arguments
ParamNames == <<"p", "q">>

BodyTokens == {IdentToken("p"), LabelToken("p"), IdentToken("q"), IdentToken("x"),
               LabelToken("x"), LiteralToken(0)}

ArgTokens == {IdentToken("x"), LiteralToken(1)}

MacroDefs ==
    {MacroDefTokens(SubSeq(ParamNames, 1, n), body) :
        n \in 0..Len(ParamNames), body \in SeqsUpTo(BodyTokens, MaxBody)}

MacroArgs == SeqsUpTo(SeqsUpTo(ArgTokens, MaxArgLen), Len(ParamNames))

\* what the name table can hold for an identifier that is not a keyword
Bindings == {"None", "Symbol", "Macro"}

Session == [macros |-> macroTable, names |-> nameTable]

MacroInit ==
    /\ macroTable \in {<<def>> : def \in MacroDefs}
    /\ callArgs \in MacroArgs
    /\ nameTable = [ident \in {"x"} |-> "None"]
    /\ expansions = <<>>
    /\ lineState = <<>>
    /\ allocated = 0
    /\ sessionLog = <<>>
    /\ ParseIdle
    /\ RomIdle
    /\ LinkIdle
    /\ AsmIdle

MacroFrame == UNCHANGED <<macroTable, callArgs, lineState, allocated, sessionLog, tokenStream, parsed,
                          romVars, linkVars, asmVars>>

\* no call has panicked
Expanding == \A i \in 1..Len(expansions) : ~expansions[i].panic

\* x is defined as a symbol or as a macro between two calls
DefineName ==
    \E entry \in {"Symbol", "Macro"} :
        /\ Expanding
        /\ nameTable["x"] # entry
        /\ nameTable' = [nameTable EXCEPT !["x"] = entry]
        /\ UNCHANGED expansions
        /\ MacroFrame

ExpandMacro ==
    /\ Expanding
    /\ Len(expansions) < MaxCalls
    /\ expansions' = Append(expansions,
                            [names |-> nameTable] @@ expand_macro(Session, 1, callArgs))
    /\ UNCHANGED nameTable
    /\ MacroFrame

MacroNext == DefineName \/ ExpandMacro

SpecMacro == MacroInit /\ [][MacroNext]_allVars

(***************************************************************************)
(* Properties of ROM production                                            *)
(***************************************************************************)

\* address j lies in the range [addr, addr + len) of section s
Covered(j, s) == s.addr <= j /\ j < s.addr + Len(s.data)

RECURSIVE RunEnds(_, _)
RunEnds(v, start) ==
    IF v = <<>> THEN {}
    ELSE {start, start + Head(v).n - 1} \cup RunEnds(Tail(v), start + Head(v).n)

\* The addresses at which the ROM is inspected: both ends of every run of
\* equal bytes, the first and last address of the minimal ROM, and every
\* address from one before to one after each section.
Probes ==
    (RunEnds(rom, 0) \cup {0, MIN_ROM_LEN - 1}
       \cup UNION {(sections[k].addr - 1)..(sections[k].addr + Len(sections[k].data)) :
                      k \in 1..Len(sections)})
    \cap 0..(VecLen(rom) - 1)

\* C1 as stated: for every section, the ROM holds the section's data at
\* rom.data[addr .. addr + len].
C1_SectionPlaced ==
    romDone =>
        \A k \in 1..Len(sections) : \A i \in 1..Len(sections[k].data) :
            VecGet(rom, sections[k].addr + i - 1) = sections[k].data[i]

\* C1 amended: every byte of a section's data is in the ROM at its address,
\* unless a later section of the list covers that address (sections may
\* overlap, and the later one overwrites the earlier).
C1_SectionPlacedUnlessOverwritten ==
    romDone =>
        \A k \in 1..Len(sections) : \A i \in 1..Len(sections[k].data) :
            (\A m \in (k + 1)..Len(sections) : ~Covered(sections[k].addr + i - 1, sections[m]))
                => VecGet(rom, sections[k].addr + i - 1) = sections[k].data[i]

\* a ROM was produced from two sections that overlap in part: one byte of
\* the earlier section was overwritten by the later one, another survived
C1_Witness ==
    /\ romDone
    /\ \E k \in 1..Len(sections) : \E m \in (k + 1)..Len(sections) :
          \E i, j \in 1..Len(sections[k].data) :
              /\ Covered(sections[k].addr + i - 1, sections[m])
              /\ VecGet(rom, sections[k].addr + i - 1) # sections[k].data[i]
              /\ \A n \in (k + 1)..Len(sections) : ~Covered(sections[k].addr + j - 1, sections[n])
              /\ VecGet(rom, sections[k].addr + j - 1) = sections[k].data[j]

\* C2: the ROM produced by into_rom is at least 0x8000 bytes long, whatever
\* the sections, empty sections beyond 0x8000 included.
C2_RomSizeFloor == romDone => VecLen(rom) >= MIN_ROM_LEN

\* a ROM of exactly the minimal length was produced from a list holding an
\* empty section placed beyond 0x8000
C2_Witness ==
    /\ romDone
    /\ VecLen(rom) = MIN_ROM_LEN
    /\ \E k \in 1..Len(sections) :
          sections[k].data = <<>> /\ sections[k].addr >= MIN_ROM_LEN

Contained(a, b) ==
    \/ b.k = "Unknown"
    \/ a.k = "Range" /\ b.k = "Range" /\ b.min <= a.min /\ a.max <= b.max

Max(a, b) == IF a >= b THEN a ELSE b
Min(a, b) == IF a <= b THEN a ELSE b

\* the intersection of two intervals, Unknown being the full range
Intersect(a, b) ==
    IF a.k = "Unknown" THEN b
    ELSE IF b.k = "Unknown" THEN a
    ELSE Range(Max(a.min, b.min), Min(a.max, b.max))

LogIndex == 1..Len(refLog)

\* C4: in every refinement step of every refine_all pass the step completes
\* and the variable's interval afterwards is contained in its interval before
\* the step: no interval widens and no Range becomes Unknown.
C4_IntervalsOnlyShrink ==
    /\ \A i \in LogIndex : ~refLog[i].panic /\ Contained(refLog[i].stored, refLog[i].old)
    /\ phase = "link" => ~panicked

\* a pass after the first narrowed a variable from one range to a smaller one
C4_Witness ==
    /\ phase = "link"
    /\ passes >= 2
    /\ \E i \in LogIndex :
          /\ refLog[i].old.k = "Range"
          /\ refLog[i].stored # refLog[i].old
          /\ Contained(refLog[i].stored, refLog[i].old)

\* C5 as stated: the refine_all pass that follows resolve's two passes
\* changes no variable.
C5_FixedPointAfterTwoPasses ==
    (phase = "link" /\ passes = 3) =>
        \A i \in LogIndex : refLog[i].stored = refLog[i].old

\* C6: a refinement either stores the intersection of the previous interval
\* with the incoming value, or, when the incoming value is not contained in
\* the previous interval, fails as a logic error and stores nothing.
C6_RefineIntersects ==
    \A i \in LogIndex :
        LET e == refLog[i]
        IN /\ Contained(e.value, e.old) =>
                ~e.panic /\ e.stored = Intersect(e.old, e.value) /\ vars[e.id] = e.stored
           /\ ~Contained(e.value, e.old) =>
                e.panic /\ e.stored = e.old /\ vars[e.id] = e.old

\* a range was refined to a strictly smaller range
C6_Witness ==
    /\ phase = "refine"
    /\ \E i \in LogIndex :
          /\ refLog[i].old.k = "Range"
          /\ refLog[i].value.k = "Range"
          /\ refLog[i].value # refLog[i].old
          /\ ~refLog[i].panic
          /\ vars[1] = refLog[i].value

SizeIndex == 1..Len(sizeLog)

IsSingleton(v) == v.k = "Range" /\ v.min = v.max

\* C7 as stated: 2 for a singleton >= 0xFF00, 3 for a singleton < 0xFF00,
\* the interval [2,3] in every other case.
C7_SizeBySingleton ==
    \A i \in SizeIndex :
        sizeLog[i].size =
            IF IsSingleton(sizeLog[i].value) /\ sizeLog[i].value.min >= 65280 THEN Exact(2)
            ELSE IF IsSingleton(sizeLog[i].value) /\ sizeLog[i].value.min < 65280 THEN Exact(3)
            ELSE Range(2, 3)

\* C7 amended: 2 for a range lying wholly at or above 0xFF00, 3 for a range
\* lying wholly below 0xFF00 (singleton or not), the interval [2,3] for a
\* range that straddles 0xFF00 and for Unknown.
C7_SizeByRange ==
    \A i \in SizeIndex :
        sizeLog[i].size =
            IF sizeLog[i].value.k = "Range" /\ sizeLog[i].value.min >= 65280 THEN Exact(2)
            ELSE IF sizeLog[i].value.k = "Range" /\ sizeLog[i].value.max < 65280 THEN Exact(3)
            ELSE Range(2, 3)

\* one linker action sized an address known only as a non-singleton range
\* below 0xFF00 as 3, and a constant address 0xFF00 as 2
C7_Witness ==
    /\ \E i \in SizeIndex :
          /\ sizeLog[i].value.k = "Range"
          /\ sizeLog[i].value.min < sizeLog[i].value.max
          /\ sizeLog[i].value.max < 65280
          /\ sizeLog[i].size = Exact(3)
    /\ \E i \in SizeIndex : sizeLog[i].value = Exact(65280) /\ sizeLog[i].size = Exact(2)

(***************************************************************************)
(* Properties of assemble                                                  *)
(***************************************************************************)

\* C8 as stated: whenever the root file can be read, assembly runs to
\* completion and returns a program, whatever the source text: nothing
\* panics, asserts or aborts.
C8_AlwaysCompletes ==
    (phase \in {"done", "aborted"} /\ rootRead = "Ok") =>
        (phase = "done" /\ ~panicked /\ result = "Some")

\* C9: when reading the root file fails, assemble returns no program and the
\* sink has received exactly one diagnostic, made of exactly one Error clause
\* attributed to the root file name.
C9_RootReadFailure ==
    (phase \in {"done", "aborted"} /\ rootRead # "Ok") =>
        /\ phase = "done"
        /\ result = "None"
        /\ ~panicked
        /\ Len(diags) = 1
        /\ Len(diags[1].clauses) = 1
        /\ diags[1].clauses[1].tag = "Error"
        /\ diags[1].clauses[1].file = RootName

\* assemble has returned for a root file that is not valid UTF-8
C9_Witness ==
    /\ phase = "done"
    /\ rootRead = "Utf8Error"
    /\ result = "None"
    /\ Len(diags) = 1

\* statement i had an error diagnostic emitted for it
ErrorAt(i) == \E d \in 1..Len(diags) : diags[d].stmt = i

\* a statement that, analysed alone, gives no diagnostic and does not panic
WellFormed(stmt) ==
    LET alone == analyze_token_seq(NewSession, <<stmt>>)
    IN alone.diags = <<>> /\ ~alone.panic

EmittedBy(log, j) == IF j <= Len(log) THEN log[j] ELSE <<>>

Remove(seq, i) == SubSeq(seq, 1, i - 1) \o SubSeq(seq, i + 1, Len(seq))

\* C10 as stated: if an error diagnostic is emitted for statement S, every
\* well-formed statement on a later line gives the builder what it would have
\* given it had S been absent.
C10_ErrorLocalRecovery ==
    (phase \in {"done", "aborted"} /\ rootRead = "Ok") =>
        \A i \in 1..Len(src) :
            ErrorAt(i) =>
                \A j \in (i + 1)..Len(src) :
                    WellFormed(src[j]) =>
                        EmittedBy(emitted, j)
                            = EmittedBy(analyze_token_seq(NewSession, Remove(src, i)).emitted, j - 1)

(***************************************************************************)
(* Properties of the object builder                                        *)
(***************************************************************************)

\* the builder step that performs set_origin(addr)
SetOriginStep(addr) == Building /\ Install(set_origin(Builder, addr)) /\ BuildFrame

\* the builder step that pushes node
PushStep(node) == Building /\ Install(push(Builder, node)) /\ BuildFrame

\* C19: in the prelude of a section started by `section`, every org sets the
\* address expression of that section to its operand and leaves everything
\* else as it was: no section is added, and the builder stays in the prelude,
\* so that the last org wins.
C19_OrgInSectionPrelude ==
    [][\A addr \in Origins :
          (SetOriginStep(addr) /\ state.k = "SectionPrelude") =>
              /\ object' = [object EXCEPT !.sections[state.index].constraints = addr]
              /\ Len(object'.sections) = Len(object.sections)
              /\ state' = state
              /\ vars' = vars]_allVars

\* an org was given in the prelude of a named section, which is still empty
C19_Witness ==
    /\ phase = "build"
    /\ state.k = "SectionPrelude"
    /\ object.symbols[1] = SectionDef(state.index)
    /\ object.sections[state.index].constraints \in Origins
    /\ object.sections[state.index].items = <<>>
    /\ Len(object.sections) = 1

\* C20: an org given after a fragment was emitted into the current section
\* changes no section; the next fragment goes to a new anonymous section, added
\* after the existing ones, whose address constraint is the org's operand.
C20_OrgAfterFragment ==
    [][/\ \A addr \in Origins :
             (SetOriginStep(addr) /\ state.k = "Section") =>
                 /\ object' = object
                 /\ vars' = vars
                 /\ state' = AnonSectionPrelude(addr)
       /\ \A node \in Items :
             (PushStep(node) /\ state.k = "AnonSectionPrelude") =>
                 /\ Len(object'.sections) = Len(object.sections) + 1
                 /\ \A k \in 1..Len(object.sections) : object'.sections[k] = object.sections[k]
                 /\ object'.sections[Len(object'.sections)].constraints = state.addr
                 /\ object'.sections[Len(object'.sections)].items = <<node>>
                 /\ object'.symbols = object.symbols
                 /\ state' = InSection(Len(object'.sections))]_allVars

\* a fragment, then an org, then a fragment: the second fragment sits in a
\* second, anonymous section constrained to the org's operand, and the first
\* section has kept its fragment and has no address constraint
C20_Witness ==
    /\ phase = "build"
    /\ Len(object.sections) = 2
    /\ state = InSection(2)
    /\ object.sections[1].constraints = NoExpr
    /\ object.sections[1].items # <<>>
    /\ object.sections[2].constraints \in Origins
    /\ Len(object.sections[2].items) = 1
    /\ \A n \in Names : object.symbols[n] # SectionDef(2)

(***************************************************************************)
(* SpecLine: the semantic actions of the lines of a file, as the parser    *)
(* calls them                                                              *)
(***************************************************************************)

\* the largest number of lines
MaxLines == 4

LabelIdents == {<<"f">>, <<"g">>, <<"_", "l">>, <<"m">>, <<"h", "l">>}

InstrIdents == {<<"n", "o", "p">>, <<"e", "q", "u">>, <<"m", "a", "c", "r", "o">>,
                <<"s", "e", "c", "t", "i", "o", "n">>, <<"h", "l">>, <<"m">>, <<"f">>}

Semantics ==
    [session |-> [names |-> nameTable, macros |-> macroTable, allocated |-> allocated,
                  log |-> sessionLog, panic |-> panicked],
     state |-> lineState.state,
     rule |-> lineState.rule]

LineInit ==
    /\ nameTable = SessionImpl_new.names
    /\ macroTable = SessionImpl_new.macros
    /\ allocated = SessionImpl_new.allocated
    /\ sessionLog = SessionImpl_new.log
    /\ panicked = SessionImpl_new.panic
    /\ lineState = [state |-> InstrLineState(NoPendingLabel), rule |-> "Eol", lines |-> 0]
    /\ callArgs = <<>>
    /\ expansions = <<>>
    /\ ParseIdle
    /\ RomIdle
    /\ AsmIdle
    /\ object = 0
    /\ state = 0
    /\ vars = <<>>
    /\ phase = "done"
    /\ ops = 0
    /\ passes = 0
    /\ refLog = <<>>
    /\ sizeLog = <<>>

\* the variables take the semantics an action returned
LineStep(sem, lines) ==
    /\ nameTable' = sem.session.names
    /\ macroTable' = sem.session.macros
    /\ allocated' = sem.session.allocated
    /\ sessionLog' = sem.session.log
    /\ panicked' = sem.session.panic
    /\ lineState' = [state |-> sem.state, rule |-> sem.rule, lines |-> lines]
    /\ UNCHANGED <<callArgs, expansions, tokenStream, parsed, romVars, asmVars,
                   object, state, vars, phase, ops, passes, refLog, sizeLog>>

WillParseLine ==
    /\ ~panicked
    /\ lineState.rule = "Eol"
    /\ lineState.lines < MaxLines
    /\ LineStep([will_parse_line(Semantics) EXCEPT !.session.log = <<>>], lineState.lines + 1)

ParseLabel ==
    \E label \in LabelIdents :
        /\ ~panicked
        /\ lineState.rule = "Line"
        /\ lineState.state.label = NoPendingLabel
        /\ LineStep(did_parse_label(will_parse_label(Semantics, label)), lineState.lines)

WillParseInstrOf(ident) ==
    /\ ~panicked
    /\ lineState.rule = "Line"
    /\ LineStep(will_parse_instr(Semantics, ident), lineState.lines)

WillParseInstr == \E ident \in InstrIdents : WillParseInstrOf(ident)

DidParseInstr ==
    /\ ~panicked
    /\ lineState.rule \in {"BuiltinInstr", "MacroInstr", "Error"}
    /\ LineStep(did_parse_instr(Semantics), lineState.lines)

DidParseLine ==
    /\ ~panicked
    /\ lineState.rule \in {"Line", "Done"}
    /\ LineStep(did_parse_line(Semantics), lineState.lines)

LineNext == WillParseLine \/ ParseLabel \/ WillParseInstr \/ DidParseInstr \/ DidParseLine

SpecLine == LineInit /\ [][LineNext]_allVars

(***************************************************************************)
(* Properties of the parser                                                *)
(***************************************************************************)

\* the indices of the UnexpectedToken diagnostics among the calls made
UnexpectedAt(acts) == {i \in 1..Len(acts) : acts[i].k = "UnexpectedToken"}

FirstUnexpected(acts) == CHOOSE i \in UnexpectedAt(acts) : \A j \in UnexpectedAt(acts) : i <= j

\* the line of the token at index a: from after the previous Eol to its own Eol or Eof
LineStart(input, a) ==
    CHOOSE s \in 1..a :
        /\ \A k \in s..(a - 1) : input[k] # "Eol"
        /\ s = 1 \/ input[s - 1] = "Eol"

LineEnd(input, a) ==
    CHOOSE e \in a..Len(input) :
        /\ input[e] \in LINE_FOLLOW_SET
        /\ \A k \in a..(e - 1) : input[k] \notin LINE_FOLLOW_SET

\* the stream without the tokens from the offending one up to the line's end
Repaired(input, a, e) == SubSeq(input, 1, a - 1) \o SubSeq(input, e, Len(input))

\* a call made after index e as it reads once the tokens a..e-1 are gone
Shifted(act, a, e) ==
    [act EXCEPT !.at = IF @ = 0 THEN 0 ELSE @ - (e - a), !.pos = @ - (e - a)]

\* the calls made once the parser was past index e: those of the following lines
Following(acts, e) == LET After(act) == act.pos > e IN SelectSeq(acts, After)

FollowingShifted(acts, a, e) ==
    [i \in 1..Len(Following(acts, e)) |-> Shifted(Following(acts, e)[i], a, e)]

\* a is the offending token of the first error of p, e the end of its line
RecoversAt(p, first, a, e) ==
    /\ Cardinality({i \in UnexpectedAt(p.actions) :
                       p.actions[i].at \in LineStart(p.tokens, a)..e}) = 1
    /\ FollowingShifted(p.actions, a, e)
           = Following(parse_src(Repaired(p.tokens, a, e)).actions, a)
    /\ p.panic = parse_src(Repaired(p.tokens, a, e)).panic

RecoversFrom(p, first) ==
    RecoversAt(p, first, p.actions[first].at, LineEnd(p.tokens, p.actions[first].at))

\* C11 as stated: when the parser meets an unexpected token it emits exactly
\* one diagnostic for the line of that token and discards the tokens from it
\* up to, and not beyond, the Eol or Eof that ends the line; the following
\* lines are parsed as if the discarded tokens had not been there.
C11_OneDiagnosticPerLine ==
    (parsed # NotParsed /\ UnexpectedAt(parsed.actions) # {}) =>
        RecoversFrom(parsed, FirstUnexpected(parsed.actions))

\* the recovery of diagnose_missing_comma_in_arg_list happens: a command whose
\* second argument lacks its comma, followed by a line that is parsed
C11_Recovered ==
    /\ tokenStream = <<"Command", "Literal", "Literal", "Eol", "Command", "Eof">>
    /\ parsed # NotParsed
    /\ ~parsed.panic
    /\ Cardinality(UnexpectedAt(parsed.actions)) = 1
    /\ RecoversFrom(parsed, FirstUnexpected(parsed.actions))
    /\ parsed.actions[Len(parsed.actions) - 2] = [k |-> "enter_command", at |-> 5, pos |-> 6]

(***************************************************************************)
(* Properties of macro expansion                                           *)
(***************************************************************************)

TheMacro == macroTable[1]

\* the argument of the call for parameter i: empty when none was supplied
ArgumentOf(args, i) == IF i <= Len(args) THEN args[i] ELSE <<>>

NamesParam(def, tok) == \E i \in 1..Len(def.params) : def.params[i] = token_name(tok)

ParamIndex(def, tok) == CHOOSE i \in 1..Len(def.params) : def.params[i] = token_name(tok)

\* the tokens of an argument as they stand for a body token: the Label rule
\* of C14 applies to the first of them
Relabelled(body_token, arg) ==
    IF body_token.k = "Label" /\ arg # <<>> /\ arg[1].k = "Ident"
    THEN <<LabelToken(arg[1].v)>> \o Tail(arg)
    ELSE arg

Contribution(def, args, tok) ==
    IF NamesParam(def, tok) THEN Relabelled(tok, ArgumentOf(args, ParamIndex(def, tok)))
    ELSE <<tok>>

\* the in-order concatenation of the contributions of the body tokens from index b on
RECURSIVE Concatenation(_, _, _)
Concatenation(def, args, b) ==
    IF b > Len(def.body) THEN <<>>
    ELSE Contribution(def, args, def.body[b]) \o Concatenation(def, args, b + 1)

\* C12 as stated: the stream of an expansion is the in-order concatenation,
\* over the body tokens, of every token of the corresponding argument when the
\* body token is an Ident or a Label that names a parameter, and of the body
\* token itself otherwise; it ends after the last body token.
C12_ExpansionIsConcatenation ==
    \A c \in 1..Len(expansions) :
        /\ ~expansions[c].panic
        /\ expansions[c].tokens = Concatenation(TheMacro, callArgs, 1)

\* the arguments of a call, with an empty one for each parameter that got none
Padded(def, args) == [i \in 1..Len(def.params) |-> ArgumentOf(args, i)]

\* C13 as stated: a call with no more arguments than the macro has parameters
\* succeeds, and a parameter without an argument contributes, like a parameter
\* with an empty argument, no token where the body references it.
C13_MissingArgsAreEmpty ==
    Len(callArgs) <= Len(TheMacro.params) =>
        \A c \in 1..Len(expansions) :
            /\ ~expansions[c].panic
            /\ expansions[c].tokens = Concatenation(TheMacro, Padded(TheMacro, callArgs), 1)

\* where the tokens of a stream come from: body index b, and for a substituted
\* token the parameter i and the index t in its argument
Origins_of(def, args, b) ==
    IF NamesParam(def, def.body[b])
    THEN [t \in 1..Len(ArgumentOf(args, ParamIndex(def, def.body[b]))) |->
             [b |-> b, i |-> ParamIndex(def, def.body[b]), t |-> t]]
    ELSE <<[b |-> b, i |-> 0, t |-> 0]>>

RECURSIVE OriginsFrom(_, _, _)
OriginsFrom(def, args, b) ==
    IF b > Len(def.body) THEN <<>>
    ELSE Origins_of(def, args, b) \o OriginsFrom(def, args, b + 1)

\* the Label rule for the token that came from origin
LabelRule(def, args, origin, tok) ==
    origin.i # 0 =>
        IF def.body[origin.b].k = "Label" /\ origin.t = 1 /\ args[origin.i][1].k = "Ident"
        THEN tok = LabelToken(args[origin.i][1].v)
        ELSE tok = args[origin.i][origin.t]

\* C14: where the body has Label(p) for a parameter p whose argument starts
\* with Ident(x), the first token expanded there is Label(x); every other
\* argument token, for a Label or for an Ident body token, is emitted unchanged.
C14_LabelSubstitution ==
    \A c \in 1..Len(expansions) :
        \A j \in 1..Len(expansions[c].tokens) :
            /\ j <= Len(OriginsFrom(TheMacro, callArgs, 1))
            /\ LabelRule(TheMacro, callArgs, OriginsFrom(TheMacro, callArgs, 1)[j],
                         expansions[c].tokens[j])

C14_Witness ==
    /\ TheMacro = MacroDefTokens(<<"p">>, <<LabelToken("p"), IdentToken("p")>>)
    /\ callArgs = <<<<IdentToken("x"), LiteralToken(1)>>>>
    /\ Len(expansions) = 1
    /\ expansions[1].tokens = <<LabelToken("x"), LiteralToken(1), IdentToken("x"), LiteralToken(1)>>
    /\ ~expansions[1].panic

\* no token of the body names ident
NotNamedIn(def, ident) == \A b \in 1..Len(def.body) : token_name(def.body[b]) # ident

\* C15: the calls of a macro whose body has no token naming x, made with the
\* same arguments, yield the same token stream however x is bound at each call.
C15_Hygiene ==
    NotNamedIn(TheMacro, "x") =>
        \A c \in 1..Len(expansions) : \A d \in 1..Len(expansions) :
            /\ expansions[c].tokens = expansions[d].tokens
            /\ expansions[c].panic = expansions[d].panic

C15_Witness ==
    /\ NotNamedIn(TheMacro, "x")
    /\ Len(expansions) = 2
    /\ expansions[1].names["x"] = "None"
    /\ expansions[2].names["x"] = "Macro"
    /\ \E j \in 1..Len(expansions[2].tokens) : expansions[2].tokens[j] = IdentToken("x")
    /\ expansions[1].tokens = expansions[2].tokens

(***************************************************************************)
(* Properties of the line semantics                                        *)
(***************************************************************************)

\* what the session was asked in the step
NewEvents == SubSeq(sessionLog', Len(sessionLog) + 1, Len(sessionLog'))

DefinesLocation(event, label) ==
    event.k = "DefineSymbol" /\ event.at = label /\ event.expr = <<"Location">>

FlushedIn(events, label) == \E i \in 1..Len(events) : DefinesLocation(events[i], label)

NoSymbolDefinedIn(events) == \A i \in 1..Len(events) : events[i].k # "DefineSymbol"

\* the instruction has had no effect yet
NoEffectIn(events) ==
    \A i \in 1..Len(events) : events[i].k \notin {"ExpandMacro", "BuiltinInstr", "DefineMacro"}

BindingMnemonics == {"Equ", "Macro", "Section"}

\* will_parse_instr returned on a line with a pending label
LabelledInstrStep ==
    /\ lineState.rule = "Line"
    /\ lineState.state.label # NoPendingLabel
    /\ lineState'.rule \in {"BuiltinInstr", "MacroInstr", "Error"}
    /\ ~panicked'

\* the instruction is a macro call or a built-in mnemonic that does not bind to a label
FlushingInstr(line) ==
    \/ line.rule = "MacroInstr"
    \/ line.rule = "BuiltinInstr" /\ line.state.mnemonic \notin BindingMnemonics

LabelFlushedFirst ==
    LabelledInstrStep =>
        /\ FlushedIn(NewEvents, lineState.state.label) <=> FlushingInstr(lineState')
        /\ NoEffectIn(sessionLog')
        /\ FlushingInstr(lineState') \/ NoSymbolDefinedIn(NewEvents)
        /\ (lineState'.rule = "BuiltinInstr" /\ ~FlushingInstr(lineState')) =>
               lineState'.state.label = lineState.state.label

\* a directive that binds to its label is given the label, and the line defines no
\* location symbol
LabelGivenToDirective ==
    (lineState.rule = "BuiltinInstr" /\ lineState'.rule = "Done" /\ ~FlushingInstr(lineState)) =>
        /\ NewEvents = <<[k |-> "BuiltinInstr", mnemonic |-> lineState.state.mnemonic,
                          label |-> lineState.state.label]>>
        /\ lineState'.state.k = "MacroDef" \/ lineState'.state.label = NoPendingLabel

\* C16: on a line with a pending label, will_parse_instr flushes the label (defines
\* it as a symbol at the current location) before the instruction has any effect
\* exactly when the instruction is a macro call or a built-in mnemonic that does not
\* bind to a label; a mnemonic that binds to a label (equ, macro, section) is given
\* the label instead, and no location symbol is defined for it
C16_FlushBeforeInstr == [][LabelFlushedFirst /\ LabelGivenToDirective]_allVars

C16_Witness ==
    /\ lineState.rule = "MacroInstr"
    /\ sessionLog # <<>>
    /\ DefinesLocation(sessionLog[Len(sessionLog)], <<"f">>)

IsGlobal(label) == label[1] # "_"

\* a pending label is flushed in the step
FlushStep ==
    /\ lineState.rule \in {"Line", "Done"}
    /\ lineState.state.k = "InstrLine"
    /\ lineState.state.label # NoPendingLabel
    /\ FlushedIn(NewEvents, lineState.state.label)
    /\ ~panicked'

DefinedId(events) == events[CHOOSE i \in 1..Len(events) : events[i].k = "DefineSymbol"].id

\* the id a local label gets: the one the local map has for it, or a fresh one
LocalId(before) == IF before.k = "Symbol" THEN before.id ELSE allocated

ScopeRule(label) ==
    /\ (nameTable'.scope = nameTable.scope + 1) <=> IsGlobal(label)
    /\ IsGlobal(label) \/ nameTable'.scope = nameTable.scope
    /\ IsGlobal(label) => DOMAIN nameTable'.local = {}
    /\ (~IsGlobal(label) /\ nameTable.scope >= 1) =>
           /\ nameTable'.global = nameTable.global
           /\ DefinedId(NewEvents) = LocalId(table_get(nameTable.local, label))
           /\ table_get(nameTable.local, label).k = "None" =>
                  nameTable'.local = table_insert(nameTable.local, label,
                                                  ResolvedSymbol(allocated))
           /\ table_get(nameTable.local, label).k # "None" =>
                  nameTable'.local = nameTable.local

NotAMnemonicAt(ident) == [k |-> "EmitDiag", message |-> "NotAMnemonic", at |-> ident]

UndefinedMacroAt(ident) == [k |-> "EmitDiag", message |-> "UndefinedMacro", at |-> ident]

\* will_parse_instr is given an identifier that has no entry in the name table
UnknownInstr(ident) == resolve_name(Semantics.session, ident).k = "None" /\ WillParseInstrOf(ident)

\* the step asks the session for one thing, the diagnostic, and changes nothing else
OnlyDiagnoses(diagnostic) ==
    /\ sessionLog' = Append(sessionLog, diagnostic)
    /\ lineState' = [lineState EXCEPT !.rule = "Error"]
    /\ UNCHANGED <<nameTable, macroTable, allocated, panicked>>

\* the end of an instruction that was an error asks nothing of the session
ErrorInstrIsDropped ==
    (lineState.rule = "Error" /\ lineState'.rule = "Done") =>
        UNCHANGED <<sessionLog, nameTable, macroTable, allocated, panicked>>

Resolved == phase = "link" /\ passes = 2

\* what the variable v held just before the refinement at index n of the log
VarAt(n, v) ==
    LET prior == {j \in 1..(n - 1) : refLog[j].id = v}
    IN IF prior = {} THEN Unknown
       ELSE refLog[CHOOSE j \in prior : \A h \in prior : h <= j].stored

TableAt(n) == [v \in DOMAIN vars |-> VarAt(n, v)]

\* the value of a section's org expression at index n of the log, 0 without one
OrgValue(n, section) ==
    IF section.constraints = NoExpr THEN Exact(0)
    ELSE eval(section.constraints, object, TableAt(n), Unknown)

Zeroed(value) == IF value = Unknown THEN Exact(0) ELSE value

\* the refinements of the addr variable of section s
AddrEntries(s) == {n \in LogIndex : refLog[n].id = object.sections[s].addr}

\* C27, as the code has it: in each of resolve's passes the addr variable of every
\* section is refined once, to 0 when the section has no org expression and
\* otherwise to the value of the org expression, which is Unknown when the
\* expression's value is unknown
C27_AddrRefinedToOrg ==
    Resolved =>
        \A s \in 1..Len(object.sections) :
            /\ \A n \in AddrEntries(s) : refLog[n].value = OrgValue(n, object.sections[s])
            /\ ~panicked => Cardinality(AddrEntries(s)) = 2

\* C27, as stated: an org expression that evaluates to Unknown counts as 0
C27_UnknownOrgIsZero ==
    Resolved =>
        \A s \in 1..Len(object.sections) :
            /\ \A n \in AddrEntries(s) :
                  refLog[n].value = Zeroed(OrgValue(n, object.sections[s]))
            /\ ~panicked => Cardinality(AddrEntries(s)) = 2

\* a section without org was placed at 0 and a section whose org expression has an
\* unknown value was refined to Unknown
C27_Witness ==
    /\ Resolved
    /\ ~panicked
    /\ \E s \in 1..Len(object.sections) :
          /\ object.sections[s].constraints = NoExpr
          /\ \A n \in AddrEntries(s) : refLog[n].value = Exact(0)
    /\ \E s \in 1..Len(object.sections) :
          /\ object.sections[s].constraints # NoExpr
          /\ \E n \in AddrEntries(s) : refLog[n].value = Unknown

\* the address expression of the fragment names no undefined symbol
RefersToDefined(item) ==
    item.expr.k = "Name" => object.symbols[item.expr.n] # NotDefined

\* a fragment of fixed size, or an LdInlineAddr whose address names only defined symbols
FixedOrResolvable(item) ==
    \/ item.k \in {"Byte", "Reloc"}
    \/ item.k = "LdInlineAddr" /\ RefersToDefined(item)

\* C28: after the two passes of resolve, every LdInlineAddr fragment whose address
\* expression refers only to defined names has the size 2 or the size 3, and the
\* size variable of a section made of fixed-size fragments and such fragments only
\* is a singleton
C28_SizesAreSingletons ==
    (Resolved /\ ~panicked) =>
        \A s \in 1..Len(object.sections) :
            LET section == object.sections[s]
            IN /\ \A n \in 1..Len(section.items) :
                      (section.items[n].k = "LdInlineAddr" /\ RefersToDefined(section.items[n])) =>
                          size(section.items[n], object, vars, Unknown) \in {Exact(2), Exact(3)}
               /\ (\A n \in 1..Len(section.items) : FixedOrResolvable(section.items[n])) =>
                      IsSingleton(vars[section.size])

\* what a fragment counts for: nothing for a Reloc, the evaluated byte count for a
\* Reserved, its size for any other
FragmentSize(item) ==
    CASE item.k = "Reloc" -> Exact(0)
      [] item.k = "Reserved" -> eval(item.expr, object, vars, Unknown)
      [] OTHER -> size(item, object, vars, Unknown)

\* the sum of what the first n fragments count for
RECURSIVE SizesBefore(_, _)
SizesBefore(items, n) ==
    IF n = 0 THEN Exact(0) ELSE NumAdd(SizesBefore(items, n - 1), FragmentSize(items[n]))

\* C29: after resolve, the variable of a label defined in a section equals the
\* section's address plus the sum of the sizes of the fragments that precede the
\* label in the section, a Reserved fragment counting for its evaluated byte count
\* and a Reloc fragment for 0
C29_LabelAtOffset ==
    (Resolved /\ ~panicked) =>
        \A s \in 1..Len(object.sections) :
            \A n \in 1..Len(object.sections[s].items) :
                object.sections[s].items[n].k = "Reloc" =>
                    vars[object.sections[s].items[n].id] =
                        NumAdd(vars[object.sections[s].addr],
                               SizesBefore(object.sections[s].items, n - 1))

(***************************************************************************)
(* Properties of the order of sections and fragments                       *)
(***************************************************************************)

\* one operation of the builder
BuildStep == phase = "build" /\ ops' = ops + 1

IsPrefix(before, after) ==
    Len(before) <= Len(after) /\ SubSeq(after, 1, Len(before)) = before

\* the section is still there, with the same variables, and its fragments are the
\* first fragments of what it holds afterwards
SectionKept(s) ==
    /\ s <= Len(object'.sections)
    /\ object'.sections[s].addr = object.sections[s].addr
    /\ object'.sections[s].size = object.sections[s].size
    /\ IsPrefix(object.sections[s].items, object'.sections[s].items)

\* fragments appended by the step
Appended ==
    LET Grown(s) ==
            IF s <= Len(object.sections)
            THEN Len(object'.sections[s].items) - Len(object.sections[s].items)
            ELSE Len(object'.sections[s].items)
        RECURSIVE Total(_)
        Total(s) == IF s = 0 THEN 0 ELSE Total(s - 1) + Grown(s)
    IN Total(Len(object'.sections))

\* C25: no operation of the builder (emit item, reserve, org, start section, define
\* symbol) reorders, removes or modifies a section or a fragment appended before:
\* sections stay in the order of their creation, new ones after them, and within
\* each section the fragments stay in the order in which they were emitted, a new
\* one after them
C25_FragmentsKeepOrder ==
    [][BuildStep =>
          /\ \A s \in 1..Len(object.sections) : SectionKept(s)
          /\ Len(object'.sections) <= Len(object.sections) + 1
          /\ Appended <= 1]_allVars

\* a byte in a first section, then a second section with a reserved fragment
\* followed by a label
C25_Witness ==
    /\ phase = "build"
    /\ Len(object.sections) = 2
    /\ object.sections[1].items = <<Byte>>
    /\ Len(object.sections[2].items) = 2
    /\ object.sections[2].items[1] = Reserved(Literal(2))
    /\ object.sections[2].items[2].k = "Reloc"

\* the label the line holds for its instruction
PendingLabel(line) ==
    CASE line.state.k \in {"InstrLine", "BuiltinInstr"} -> line.state.label
      [] line.state.k = "MacroInstr" -> line.state.parent.label
      [] OTHER -> NoPendingLabel

\* the labels the step gave to a built-in instruction
GivenLabel(events) ==
    {events[i].label : i \in {j \in 1..Len(events) : events[j].k = "BuiltinInstr"}}
        \ {NoPendingLabel}

\* the step leaves the label pending and does nothing with it
LabelKept(label) ==
    /\ PendingLabel(lineState') = label
    /\ NoSymbolDefinedIn(NewEvents)
    /\ GivenLabel(NewEvents) = {}

\* the step defines the label, once, as a symbol at the current location
LabelDefinedOnce(label) ==
    /\ PendingLabel(lineState') = NoPendingLabel
    /\ Cardinality({i \in 1..Len(NewEvents) : NewEvents[i].k = "DefineSymbol"}) = 1
    /\ FlushedIn(NewEvents, label)
    /\ GivenLabel(NewEvents) = {}

\* the step gives the label to a directive that binds to it
LabelBound(label) ==
    /\ PendingLabel(lineState') = NoPendingLabel
    /\ NoSymbolDefinedIn(NewEvents)
    /\ GivenLabel(NewEvents) = {label}
    /\ lineState.state.k = "BuiltinInstr"
    /\ lineState.state.mnemonic \in BindingMnemonics

LabelDiscipline ==
    ~panicked' =>
        /\ PendingLabel(lineState) # NoPendingLabel =>
               \/ LabelKept(PendingLabel(lineState))
               \/ LabelDefinedOnce(PendingLabel(lineState))
               \/ LabelBound(PendingLabel(lineState))
        /\ PendingLabel(lineState) = NoPendingLabel =>
               NoSymbolDefinedIn(NewEvents) /\ GivenLabel(NewEvents) = {}
        /\ lineState'.rule = "Eol" => PendingLabel(lineState') = NoPendingLabel
        /\ lineState.rule = "Eol" => PendingLabel(lineState') = NoPendingLabel

\* C30: a label parsed on a line is pending until a step either gives it to a
\* directive that binds to its label or defines it, exactly once, as a symbol at
\* the current location; no step defines a symbol or hands over a label when none
\* is pending, and no label is pending when the line has been fully processed or
\* when the next line starts, also on a line whose instruction was diagnosed
C30_LabelSettledByEndOfLine == [][LabelDiscipline]_allVars

\* the line `f hl` has been processed: hl is diagnosed, f defined at the location
C30_Witness ==
    /\ lineState.rule = "Eol"
    /\ \E i \in 1..Len(sessionLog) :
           /\ sessionLog[i].k = "EmitDiag"
           /\ sessionLog[i].message = "NotAMnemonic"
           /\ \E j \in (i + 1)..Len(sessionLog) : DefinesLocation(sessionLog[j], <<"f">>)
    /\ Cardinality({i \in 1..Len(sessionLog) : sessionLog[i].k = "DefineSymbol"}) = 1

\* the category of the binding of ident: Keyword, Macro, Symbol, or None
BoundAs(ident) == resolve_name(Semantics.session, ident).k

\* a name is looked up in one map only, the one of its visibility
OneBindingPerName ==
    /\ \A ident \in DOMAIN nameTable.global : name_visibility(ident) = "Global"
    /\ \A ident \in DOMAIN nameTable.local : name_visibility(ident) = "Local"

DiagnosedIn(events) == \E i \in 1..Len(events) : events[i].k = "EmitDiag"

\* the step ends the definition of a macro whose name is bound to a symbol
MacroOverSymbol ==
    /\ lineState.state.k = "MacroDef"
    /\ lineState'.rule = "Eol"
    /\ lineState.state.label # NoPendingLabel
    /\ BoundAs(lineState.state.label) = "Symbol"

\* the step defines, as a symbol, a label whose name is bound to a macro
LabelOverMacro ==
    /\ PendingLabel(lineState) # NoPendingLabel
    /\ BoundAs(PendingLabel(lineState)) = "Macro"
    /\ ~NoSymbolDefinedIn(NewEvents)

\* C21 as stated: a name has at most one binding, and the definition of a macro
\* named like an existing symbol, or of a label named like an existing macro, is
\* reported as an error diagnostic
C21_CrossCategoryIsDiagnosed ==
    [][OneBindingPerName /\ ((MacroOverSymbol \/ LabelOverMacro) => DiagnosedIn(NewEvents))]_allVars

\* the half of C21 the code keeps: a label named like an existing macro is diagnosed
LabelOverMacroIsDiagnosed == [][LabelOverMacro => DiagnosedIn(NewEvents)]_allVars

(***************************************************************************)
(* Properties of included files                                            *)
(***************************************************************************)

LogIndices == 1..Len(analysisLog)

\* event j was produced by a line of buffer buf: an item, a diagnostic, or the
\* analysis of a file the line includes
Produced(j, buf) ==
    /\ analysisLog[j].k \in {"EmitItem", "EmitDiag", "AnalyzeTokenSeq"}
    /\ analysisLog[j].at.buf = buf

\* where the analysis of buffer buf ended, or the end of the log
Leave(buf) ==
    IF \E j \in LogIndices : analysisLog[j] = [k |-> "Returned", buf |-> buf]
    THEN CHOOSE j \in LogIndices : analysisLog[j] = [k |-> "Returned", buf |-> buf]
    ELSE Len(analysisLog) + 1

\* the file entered at event i, from an include directive, is analysed in place
IncludedAt(i, buf, at) ==
    /\ \A j \in LogIndices : Produced(j, buf) => i < j /\ j < Leave(buf)
    /\ \A j \in LogIndices :
           (analysisLog[j].k = "AnalyzeTokenSeq" /\ analysisLog[j].at.buf = buf) =>
               \/ Leave(analysisLog[j].buf) < Leave(buf)
               \/ Leave(analysisLog[j].buf) = Len(analysisLog) + 1
                      /\ Leave(buf) = Len(analysisLog) + 1
    /\ \A j \in LogIndices :
           Produced(j, at.buf) =>
               /\ analysisLog[j].at.line < at.line => j < i
               /\ analysisLog[j].at.line > at.line => j > Leave(buf)
               /\ analysisLog[j].at.line = at.line => j = i

IncludeOrder ==
    \A i \in LogIndices :
        (analysisLog[i].k = "AnalyzeTokenSeq" /\ analysisLog[i].at # NoSpan) =>
            IncludedAt(i, analysisLog[i].buf, analysisLog[i].at)

\* when the analysis of an included file ends, the including file is where it was,
\* at the line after the include directive
ResumeAfterInclude ==
    (Len(inclusions) > 1 /\ Len(inclusions') = Len(inclusions) - 1) =>
        /\ inclusions' = [SubSeq(inclusions, 1, Len(inclusions) - 1)
                              EXCEPT ![Len(inclusions) - 1].line = @ + 1]
        /\ \E i \in LogIndices :
               /\ analysisLog[i].k = "AnalyzeTokenSeq"
               /\ analysisLog[i].buf = inclusions[Len(inclusions)].buf
               /\ analysisLog[i].at = ArgSpan(inclusions[Len(inclusions) - 1].buf,
                                              inclusions[Len(inclusions) - 1].line)
        /\ SubSeq(analysisLog', 1, Len(analysisLog)) = analysisLog

\* C22: what an included file produces, and what the files it includes produce,
\* comes after everything the lines before the include directive produced and
\* before everything the lines after it produce, and when the included file ends
\* the analysis of the including file resumes at the line after the directive
C22_IncludedInPlace == []IncludeOrder /\ [][ResumeAfterInclude]_allVars

\* nop / include "a.s" / nop, where a.s includes b.s: the three items of the root
\* file and of b.s, in order, and every file left
C22_Witness ==
    /\ inclusions = <<>>
    /\ fsReads = <<RootName, "a.s", "b.s">>
    /\ \E i, j, k \in LogIndices :
           /\ i < j /\ j < k
           /\ analysisLog[i] = [k |-> "EmitItem", at |-> CommandSpan(0, 0)]
           /\ analysisLog[j] = [k |-> "EmitItem", at |-> CommandSpan(2, 0)]
           /\ analysisLog[k] = [k |-> "EmitItem", at |-> CommandSpan(0, 2)]

\* what the step added to the log
NewLog == SubSeq(analysisLog', Len(analysisLog) + 1, Len(analysisLog'))

\* the next line includes, by a string argument, a file that cannot be read
UnreadableInclude ==
    /\ inclusions # <<>>
    /\ TopFrame(Analysis).line < Len(textCache[TopFrame(Analysis).buf + 1].src)
    /\ NextLine(Analysis).cmd = "Include"
    /\ NextLine(Analysis).args # <<>>
    /\ NextLine(Analysis).args[1].k = "String"
    /\ ~fileSystem[NextLine(Analysis).args[1].path].ok

UnreadableIncludeStep ==
    /\ NewLog = <<[k |-> "EmitDiag",
                   message |-> IF fileSystem[NextLine(Analysis).args[1].path].error = "Utf8Error"
                                   THEN "InvalidUtf8" ELSE "IoError",
                   at |-> ArgSpan(TopFrame(Analysis).buf, TopFrame(Analysis).line)]>>
    /\ inclusions' = [inclusions EXCEPT ![Len(inclusions)].line = @ + 1]
    /\ textCache' = textCache

\* C23: an include directive that names a file that cannot be read (not found,
\* another I/O error, invalid UTF-8) gives exactly one diagnostic, at the span of
\* the argument of the directive, and the analysis goes on with the next line of
\* the including file
C23_UnreadableIncludeDiagnosed == [][UnreadableInclude => UnreadableIncludeStep]_allVars

\* include "b.s" / nop with b.s not valid UTF-8: the diagnostic, then the item
C23_Witness ==
    /\ Len(analysisLog) >= 3
    /\ analysisLog[2] = [k |-> "EmitDiag", message |-> "InvalidUtf8", at |-> ArgSpan(0, 0)]
    /\ analysisLog[3] = [k |-> "EmitItem", at |-> CommandSpan(0, 1)]

\* C26 as stated: read_file is called at most once for each path, and opening a
\* path again gives the buffer already loaded: no path is read twice and no two
\* buffers hold the same file
C26_ReadOncePerPath ==
    /\ \A i, j \in 1..Len(fsReads) : fsReads[i] = fsReads[j] => i = j
    /\ \A i, j \in 1..Len(textCache) : textCache[i].name = textCache[j].name => i = j

(***************************************************************************)
(* Properties of expanded diagnostics                                      *)
(***************************************************************************)

Highlight == compactDiag.main.highlight

\* the body tokens the highlight covers, in the definition of the macro called
BodyToken(pos) == Highlight.context.def.body[pos.token]

ErrorClauseAt(clause, buf, range) ==
    /\ clause.tag = "Error"
    /\ clause.message = compactDiag.main.message
    /\ clause.buf_id = buf
    /\ clause.location = range

InMacroExpansion ==
    /\ Len(expandedDiag.clauses) = 2
    /\ ErrorClauseAt(expandedDiag.clauses[1],
                     to_stripped(BodyToken(Highlight.first)).buf_id,
                     <<to_stripped(BodyToken(Highlight.first)).range[1],
                       to_stripped(BodyToken(Highlight.last)).range[2]>>)
    /\ expandedDiag.clauses[2].tag = "Note"
    /\ expandedDiag.clauses[2].message.k = "CalledHere"
    /\ expandedDiag.clauses[2].message.name = to_stripped(Highlight.context.name)
    /\ expandedDiag.clauses[2].buf_id = to_stripped(Highlight.context.name).buf_id
    /\ expandedDiag.clauses[2].location = to_stripped(Highlight.context.name).range

InFile ==
    /\ Len(expandedDiag.clauses) = 1
    /\ ErrorClauseAt(expandedDiag.clauses[1], Highlight.buf_id, Highlight.range)

\* C24: a diagnostic whose span lies in a macro expansion is expanded to an Error
\* clause located at the body tokens expanded, followed by exactly one Note clause
\* `called here` located at the span of the macro's name at the call; a diagnostic
\* at a span of a file is expanded to the Error clause alone
C24_CalledHereNote ==
    expandedDiag # NotExpanded =>
        IF Highlight.k = "Macro" THEN InMacroExpansion ELSE InFile

\* the test expand_error_in_macro: body token 2..3, call at 10..11
C24_Witness ==
    /\ compactDiag.main.highlight.k = "Macro"
    /\ compactDiag.main.highlight.context.name = BufSpan(0, <<10, 11>>)
    /\ expandedDiag.clauses =
           <<[buf_id |-> 1, tag |-> "Error", message |-> [k |-> "AfOutsideStackOperation"],
              location |-> <<2, 3>>],
             [buf_id |-> 0, tag |-> "Note",
              message |-> [k |-> "CalledHere", name |-> StrippedBufSpan(0, <<10, 11>>)],
              location |-> <<10, 11>>]>>

====
